---- MODULE Spec2Model ----
(***************************************************************************)
(* Block model, block validation, difficulty control and the mutator-set   *)
(* accumulator of neptune-core.                                            *)
(*                                                                         *)
(* Digests are symbolic terms: a hash is a tagged tuple of its preimage,   *)
(* so two digests are equal exactly when their preimages are (the          *)
(* collision-free idealisation of Tip5).  Field elements are tagged too,   *)
(* so that every two terms can be compared.                                *)
(***************************************************************************)
EXTENDS Integers, Sequences, FiniteSets, TLC

VARIABLES
    blocks,     \* two Block objects, "a" and "b", under the Block operations
    ops,        \* number of Block operations applied so far
    ret,        \* <<w, d>>: the last operation was blocks[w].hash() and returned d
    parent,     \* previous_block of is_valid_extended: the chain tip
    chunks,     \* the chunks evicted so far from the tip's Bloom filter
    cand,       \* the candidate block (self of is_valid_extended)
    merged,     \* number of transactions merged into cand
    edits,      \* number of fields of cand overwritten since it was built
    now,        \* the host time handed to is_valid_extended
    tbi,        \* target_block_interval: Option<u64>, <<>> or <<t>>
    verdict,    \* return point of the last is_valid_extended(cand, parent, now, tbi)
    calc,       \* one call of a pure function: its arguments and what it returned
    mset,       \* a mutator set accumulator with the items and membership proofs held
    chain,      \* the blocks of a chain grown from the genesis block, oldest first
    conc        \* a block shared by threads that call hash() on it

vars == <<blocks, ops, ret, parent, chunks, cand, merged, edits, now, tbi, verdict,
          calc, mset, chain, conc>>

blockVars == <<blocks, ops, ret>>

validVars == <<parent, chunks, cand, merged, edits, now, tbi, verdict>>

pureVars == <<calc, mset, chain, conc>>

-----------------------------------------------------------------------------
(* Bounds of the model *)

MaxOps == 4          \* Block operations per run
MaxEdits == 1        \* fields of a candidate overwritten before validation
MaxMerges == 1       \* transactions merged into a candidate
MaxHeight == 1       \* height of the highest block that becomes the tip

-----------------------------------------------------------------------------
(* Sequence helpers *)

RECURSIVE SeqSum(_)
SeqSum(s) == IF s = <<>> THEN 0 ELSE Head(s) + SeqSum(Tail(s))

RECURSIVE Flatten(_)
Flatten(ss) == IF ss = <<>> THEN <<>> ELSE Head(ss) \o Flatten(Tail(ss))

Map(f(_), s) == [i \in 1..Len(s) |-> f(s[i])]

Min(S) == CHOOSE x \in S : \A y \in S : x <= y

RECURSIVE SetToSortedSeq(_)
SetToSortedSeq(S) ==
    IF S = {} THEN <<>> ELSE <<Min(S)>> \o SetToSortedSeq(S \ {Min(S)})

Pow2(n) == 2 ^ n

\* insert x into the sorted sequence s, before the first greater element
RECURSIVE InsertInt(_, _)
InsertInt(x, s) ==
    IF s = <<>> THEN <<x>>
    ELSE IF x <= Head(s) THEN <<x>> \o s
    ELSE <<Head(s)>> \o InsertInt(x, Tail(s))

RECURSIVE SortInts(_)
SortInts(s) == IF s = <<>> THEN <<>> ELSE InsertInt(Head(s), SortInts(Tail(s)))

-----------------------------------------------------------------------------
(* Digest & hasher *)

\* a field element
bfe(n) == <<"bfe", n>>

\* Digest::default()
ZeroDigest == <<"zero">>

hash_pair(l, r) == <<"pair", l, r>>

hash_varlen(seq) == <<"varlen", seq>>

\* BFieldCodec of a digest: its elements, in order
encode_digest(d) == <<d>>

\* BFieldCodec of an integer-like scalar
encode_int(n) == <<bfe(n)>>

\* BFieldCodec of Option<scalar>: a tag, then the payload when present
encode_option(o) == IF o = <<>> THEN <<bfe(0)>> ELSE <<bfe(1), bfe(o[1])>>

\* BFieldCodec of a sequence whose elements are already encoded:
\* the element count, then the elements
encode_vec(encs) == <<bfe(Len(encs))>> \o Flatten(encs)

-----------------------------------------------------------------------------
(* MAST hashing: Merkle root over the zero-padded, hashed field encodings *)

RECURSIVE NextPow2From(_, _)
NextPow2From(p, n) == IF p >= n THEN p ELSE NextPow2From(2 * p, n)

NextPow2(n) == NextPow2From(1, n)

PadLeaves(leaves) ==
    leaves \o [i \in 1..(NextPow2(Len(leaves)) - Len(leaves)) |-> ZeroDigest]

RECURSIVE MerkleRoot(_)
MerkleRoot(leaves) ==
    IF Len(leaves) = 1 THEN leaves[1]
    ELSE LET h == Len(leaves) \div 2
         IN hash_pair(MerkleRoot(SubSeq(leaves, 1, h)),
                      MerkleRoot(SubSeq(leaves, h + 1, Len(leaves))))

mast_hash_of(sequences) == MerkleRoot(PadLeaves(Map(hash_varlen, sequences)))

-----------------------------------------------------------------------------
(* Merkle mountain range accumulator *)

\* MmrAccumulator::new(vec![])
EmptyMmr == [leaf_count |-> 0, peaks |-> <<>>]

RECURSIVE MergePeaks(_, _)
MergePeaks(ps, n) ==
    IF n % 2 = 1
    THEN MergePeaks(SubSeq(ps, 1, Len(ps) - 2)
                      \o <<hash_pair(ps[Len(ps) - 1], ps[Len(ps)])>>, n \div 2)
    ELSE ps

MmrAppend(m, leaf) ==
    [leaf_count |-> m.leaf_count + 1,
     peaks |-> MergePeaks(Append(m.peaks, leaf), m.leaf_count)]

RECURSIVE MmrFromLeafs(_)
MmrFromLeafs(leafs) ==
    IF leafs = <<>> THEN EmptyMmr
    ELSE MmrAppend(MmrFromLeafs(SubSeq(leafs, 1, Len(leafs) - 1)), leafs[Len(leafs)])

RECURSIVE BagFrom(_, _, _)
BagFrom(acc, peaks, i) ==
    IF i = 0 THEN acc ELSE BagFrom(hash_pair(acc, peaks[i]), peaks, i - 1)

bag_peaks(m) ==
    LET n == Len(m.peaks)
    IN IF n = 0 THEN ZeroDigest
       ELSE IF n = 1 THEN m.peaks[1]
       ELSE BagFrom(hash_pair(m.peaks[n], m.peaks[n - 1]), m.peaks, n - 2)

encode_mmr(m) == encode_int(m.leaf_count) \o encode_vec(Map(encode_digest, m.peaks))

\* heights of the peaks of an MMR with n leaves, highest first
RECURSIVE PeakHeightsFrom(_, _)
PeakHeightsFrom(n, h) ==
    IF h < 0 THEN <<>>
    ELSE IF n >= Pow2(h) THEN <<h>> \o PeakHeightsFrom(n - Pow2(h), h - 1)
    ELSE PeakHeightsFrom(n, h - 1)

PeakHeights(n) == PeakHeightsFrom(n, 5)

\* root of the perfect tree over leafs[a+1 .. a+2^h]
RECURSIVE TreeRoot(_, _, _)
TreeRoot(leafs, a, h) ==
    IF h = 0 THEN leafs[a + 1]
    ELSE hash_pair(TreeRoot(leafs, a, h - 1), TreeRoot(leafs, a + Pow2(h - 1), h - 1))

\* authentication path of position i (0-based) in the perfect tree over
\* leafs[a+1 .. a+2^h], from the leaf upwards
RECURSIVE TreePath(_, _, _, _)
TreePath(leafs, a, h, i) ==
    IF h = 0 THEN <<>>
    ELSE LET half == Pow2(h - 1)
         IN IF i < half
            THEN TreePath(leafs, a, h - 1, i) \o <<TreeRoot(leafs, a + half, h - 1)>>
            ELSE TreePath(leafs, a + half, h - 1, i - half) \o <<TreeRoot(leafs, a, h - 1)>>

\* (peak position, offset of the peak's first leaf, height) of leaf index i
RECURSIVE LocateFrom(_, _, _, _)
LocateFrom(hs, i, pos, off) ==
    IF i < off + Pow2(Head(hs)) THEN [pos |-> pos, off |-> off, h |-> Head(hs)]
    ELSE LocateFrom(Tail(hs), i, pos + 1, off + Pow2(Head(hs)))

Locate(n, i) == LocateFrom(PeakHeights(n), i, 1, 0)

\* membership proof of leaf index i against the MMR over leafs
MmrProve(leafs, i) ==
    LET loc == Locate(Len(leafs), i)
    IN TreePath(leafs, loc.off, loc.h, i - loc.off)

RECURSIVE FoldPath(_, _, _)
FoldPath(acc, path, i) ==
    IF path = <<>> THEN acc
    ELSE FoldPath(IF i % 2 = 0 THEN hash_pair(acc, Head(path))
                                ELSE hash_pair(Head(path), acc),
                  Tail(path), i \div 2)

\* MmrMembershipProof::verify(peaks, leaf, leaf_count)
MmrVerify(m, i, leaf, path) ==
    /\ i >= 0
    /\ i < m.leaf_count
    /\ LET loc == Locate(m.leaf_count, i)
       IN /\ Len(path) = loc.h
          /\ FoldPath(leaf, path, i - loc.off) = m.peaks[loc.pos]

-----------------------------------------------------------------------------
(* Mutator set: parameters, scaled down *)

WINDOW_SIZE == 4     \* bits in the active window
CHUNK_SIZE == 2      \* bits per chunk; items per window slide
NUM_TRIALS == 2      \* indices per removal record

-----------------------------------------------------------------------------
(* Items and commitments *)

\* the k-th UTXO of the model: its digest, the sender randomness, the
\* receiver digest
ItemDigest(k) == <<"utxo", k>>
SenderRandomness(k) == <<"sr", k>>
ReceiverDigest(k) == <<"rd", k>>

\* commit(item, sender_randomness, receiver_digest) -> AdditionRecord
commit(item, sender_randomness, receiver_digest) ==
    [canonical_commitment |-> hash_varlen(<<item, sender_randomness, receiver_digest>>)]

AdditionRecordOf(k) == commit(ItemDigest(k), SenderRandomness(k), ReceiverDigest(k))

encode_addition_record(ar) == encode_digest(ar.canonical_commitment)

-----------------------------------------------------------------------------
(* Sliding-window Bloom filter and mutator-set accumulator *)

\* MutatorSetAccumulator::default()
EmptyMsa == [aocl |-> EmptyMmr, swbf_inactive |-> EmptyMmr, swbf_active |-> {}]

\* the digest of a chunk (a set of relative indices)
chunk_digest(chunk) == hash_varlen(Map(bfe, SetToSortedSeq(chunk)))

\* the item with this AOCL index makes the window slide
window_slides(added_index) == added_index # 0 /\ added_index % CHUNK_SIZE = 0

\* the first absolute index of the active window
active_window_start(msa) == msa.swbf_inactive.leaf_count * CHUNK_SIZE

\* the chunk that slides out of the active window
slid_chunk(active) == {i \in active : i < CHUNK_SIZE}

slide_window(active) == {i - CHUNK_SIZE : i \in {j \in active : j >= CHUNK_SIZE}}

\* add(&record)
msa_add(msa, addition_record) ==
    LET item_index == msa.aocl.leaf_count
        aocl1 == MmrAppend(msa.aocl, addition_record.canonical_commitment)
    IN IF ~window_slides(item_index)
       THEN [msa EXCEPT !.aocl = aocl1]
       ELSE [aocl |-> aocl1,
             swbf_inactive |-> MmrAppend(msa.swbf_inactive,
                                         chunk_digest(slid_chunk(msa.swbf_active))),
             swbf_active |-> slide_window(msa.swbf_active)]

\* the pseudo-random offset of an item inside its window in trial j
IndexOffset(k, j) == (k + 3 * j * (k + 1)) % WINDOW_SIZE

\* get_swbf_indices: the absolute indices of item k added at leaf_index, sorted
get_swbf_indices(k, leaf_index) ==
    LET start == (leaf_index \div CHUNK_SIZE) * CHUNK_SIZE
    IN SortInts([j \in 1..NUM_TRIALS |-> start + IndexOffset(k, j - 1)])

\* the target-chunk entry of a removal record for chunk_index
TargetChunk(rr, chunk_index) ==
    {rr.target_chunks[i] : i \in {j \in 1..Len(rr.target_chunks) :
                                     rr.target_chunks[j].chunk_index = chunk_index}}

\* RemovalRecord::validate: every supplied chunk is authenticated by the
\* inactive part of the Bloom filter
removal_record_validate(rr, msa) ==
    \A i \in 1..Len(rr.target_chunks) :
        LET tc == rr.target_chunks[i]
        IN MmrVerify(msa.swbf_inactive, tc.chunk_index, chunk_digest(tc.chunk), tc.path)

\* test_bit: the bit at an absolute index reads 0
index_reads_zero(rr, msa, index) ==
    IF index >= active_window_start(msa)
    THEN (index - active_window_start(msa)) \notin msa.swbf_active
    ELSE \E tc \in TargetChunk(rr, index \div CHUNK_SIZE) :
            (index % CHUNK_SIZE) \notin tc.chunk

\* can_remove(r)
can_remove(msa, rr) ==
    /\ removal_record_validate(rr, msa)
    /\ \E j \in 1..Len(rr.absolute_indices) :
          index_reads_zero(rr, msa, rr.absolute_indices[j])

\* set_bit fails on an index of an already evicted chunk
set_bit_fails(msa, index) == index < active_window_start(msa)

\* remove that sets the bit of the record's first index only
msa_remove_first_index_only(msa, rr) ==
    [msa EXCEPT !.swbf_active =
        @ \cup {rr.absolute_indices[1] - active_window_start(msa)}]

\* remove that also evicts the oldest chunk of the active window
msa_remove_sliding_window(msa, rr) ==
    [aocl |-> msa.aocl,
     swbf_inactive |-> MmrAppend(msa.swbf_inactive,
                                 chunk_digest(slid_chunk(msa.swbf_active))),
     swbf_active |->
        slide_window(msa.swbf_active
                        \cup {rr.absolute_indices[j] - active_window_start(msa) :
                                 j \in 1..Len(rr.absolute_indices)})]

\* remove(&record): sets the record's bits in the active window
msa_remove(msa, rr) ==
    [msa EXCEPT !.swbf_active =
        @ \cup {rr.absolute_indices[j] - active_window_start(msa) :
                   j \in 1..Len(rr.absolute_indices)}]

msa_remove_fails(msa, rr) ==
    \E j \in 1..Len(rr.absolute_indices) : set_bit_fails(msa, rr.absolute_indices[j])

\* the absolute indices of all the records of a batch
batch_indices(records) ==
    UNION {{records[r].absolute_indices[j] :
               j \in 1..Len(records[r].absolute_indices)} : r \in 1..Len(records)}

\* batch_remove that applies the last record of the batch only
batch_remove_last_record_only(msa, records) ==
    IF records = <<>> THEN msa ELSE msa_remove(msa, records[Len(records)])

\* batch_remove that flips a bit once for every record that names it
RECURSIVE batch_remove_toggling(_, _)
batch_remove_toggling(msa, records) ==
    IF records = <<>> THEN msa
    ELSE LET bits == {Head(records).absolute_indices[j] - active_window_start(msa) :
                         j \in 1..Len(Head(records).absolute_indices)}
         IN batch_remove_toggling(
                [msa EXCEPT !.swbf_active = (@ \ bits) \cup (bits \ @)],
                Tail(records))

\* batch_remove(records, preserved_proofs), the accumulator: the bits of
\* all the records are gathered and set in one pass
batch_remove(msa, records) ==
    [msa EXCEPT !.swbf_active =
        @ \cup {index - active_window_start(msa) : index \in batch_indices(records)}]

batch_remove_fails(msa, records) ==
    \E index \in batch_indices(records) : set_bit_fails(msa, index)

encode_active_window(active) == encode_vec(Map(encode_int, SetToSortedSeq(active)))

\* a commitment to the two MMRs only
msa_hash_without_active_window(msa) ==
    hash_pair(bag_peaks(msa.aocl), bag_peaks(msa.swbf_inactive))

\* the commitment with the two MMRs paired first and the active window last
msa_hash_mmrs_paired_first(msa) ==
    hash_pair(hash_pair(bag_peaks(msa.aocl), bag_peaks(msa.swbf_inactive)),
              hash_varlen(encode_active_window(msa.swbf_active)))

\* get_commitment / hash() of the accumulator
msa_hash(msa) ==
    LET aocl_mmr_bagged == bag_peaks(msa.aocl)
        inactive_swbf_bagged == bag_peaks(msa.swbf_inactive)
        active_swbf_bagged == hash_varlen(encode_active_window(msa.swbf_active))
    IN hash_pair(aocl_mmr_bagged, hash_pair(inactive_swbf_bagged, active_swbf_bagged))

encode_msa(msa) ==
    encode_mmr(msa.aocl) \o encode_mmr(msa.swbf_inactive)
        \o encode_active_window(msa.swbf_active)

encode_target_chunk(tc) ==
    encode_int(tc.chunk_index) \o encode_vec(Map(encode_digest, tc.path))
        \o encode_vec(Map(encode_int, SetToSortedSeq(tc.chunk)))

encode_removal_record(rr) ==
    Map(bfe, rr.absolute_indices) \o encode_vec(Map(encode_target_chunk, rr.target_chunks))

-----------------------------------------------------------------------------
(* MutatorSetUpdate *)

RECURSIVE AddAll(_, _)
AddAll(msa, additions) ==
    IF additions = <<>> THEN msa
    ELSE AddAll(msa_add(msa, Head(additions)), Tail(additions))

\* [ok, msa]: the removals applied in order; not ok when a bit cannot be set
RECURSIVE RemoveAll(_, _)
RemoveAll(msa, removals) ==
    IF removals = <<>> THEN [ok |-> TRUE, msa |-> msa]
    ELSE IF msa_remove_fails(msa, Head(removals)) THEN [ok |-> FALSE, msa |-> msa]
    ELSE RemoveAll(msa_remove(msa, Head(removals)), Tail(removals))

\* MutatorSetUpdate::new(removals, additions).apply_to_accumulator(&mut msa):
\* the additions, then the removals
apply_to_accumulator(removals, additions, msa) ==
    RemoveAll(AddAll(msa, additions), removals)

-----------------------------------------------------------------------------
(* Program constants *)

TARGET_BLOCK_INTERVAL == 588000     \* milliseconds
MINIMUM_DIFFICULTY == 2
TwoHours == 7200000                 \* Timestamp::hours(2), milliseconds
LaunchDate == 10000                 \* network.launch_date(), relative
CoinUnit == 4                       \* representation units per coin, scaled down
BLOCKS_PER_GENERATION == 2          \* scaled down
MAX_BLOCK_SIZE == 10000

\* NeptuneCoins::new(n)
NeptuneCoins(n) == n * CoinUnit

\* integer division of the Rust `/`: truncating toward zero
TruncDiv(a, b) == IF a >= 0 THEN a \div b ELSE -((-a) \div b)

Abs(a) == IF a >= 0 THEN a ELSE -a

Max(a, b) == IF a >= b THEN a ELSE b

-----------------------------------------------------------------------------
(* Transaction kernel *)

encode_transaction_kernel_fields(k) ==
    << encode_vec(Map(encode_removal_record, k.inputs)),
       encode_vec(Map(encode_addition_record, k.outputs)),
       encode_vec(Map(encode_int, k.public_announcements)),
       encode_int(k.fee),
       encode_option(k.coinbase),
       encode_int(k.timestamp),
       encode_digest(k.mutator_set_hash) >>

\* TransactionKernel::mast_hash
transaction_kernel_mast_hash(k) == mast_hash_of(encode_transaction_kernel_fields(k))

\* Transaction::merge_with
merge_with(tx, other) ==
    [kernel |->
        [inputs |-> tx.kernel.inputs \o other.kernel.inputs,
         outputs |-> tx.kernel.outputs \o other.kernel.outputs,
         public_announcements |->
             tx.kernel.public_announcements \o other.kernel.public_announcements,
         fee |-> tx.kernel.fee + other.kernel.fee,
         coinbase |-> IF tx.kernel.coinbase # <<>> THEN tx.kernel.coinbase
                      ELSE other.kernel.coinbase,
         timestamp |-> Max(tx.kernel.timestamp, other.kernel.timestamp),
         mutator_set_hash |-> tx.kernel.mutator_set_hash],
     valid |-> tx.valid /\ other.valid]

\* Transaction::is_valid: the verdict of the opaque verifier on the witness
transaction_is_valid(tx) == tx.valid

-----------------------------------------------------------------------------
(* Block header, body, kernel *)

\* BlockHeight::next
height_next(h) == h + 1

\* BlockHeight::is_genesis
height_is_genesis(h) == h = 0

\* BlockHeight::get_generation
get_generation(h) == h \div BLOCKS_PER_GENERATION

encode_header_fields(h) ==
    << encode_int(h.version),
       encode_int(h.height),
       encode_digest(h.prev_block_digest),
       encode_int(h.timestamp),
       Map(bfe, h.nonce),
       encode_int(h.max_block_size),
       encode_int(h.proof_of_work_line),
       encode_int(h.proof_of_work_family),
       encode_int(h.difficulty) >>

header_mast_hash(h) == mast_hash_of(encode_header_fields(h))

\* BlockBody::mast_sequences
body_mast_sequences(b) ==
    << encode_digest(transaction_kernel_mast_hash(b.transaction.kernel)),
       encode_msa(b.mutator_set_accumulator),
       encode_mmr(b.lock_free_mmr_accumulator),
       encode_mmr(b.block_mmr_accumulator) >>

body_mast_hash(b) == mast_hash_of(body_mast_sequences(b))

\* BlockKernel::mast_hash
kernel_mast_hash(k) ==
    mast_hash_of(<< encode_digest(header_mast_hash(k.header)),
                    encode_digest(body_mast_hash(k.body)) >>)

-----------------------------------------------------------------------------
(* Block: kernel, block type and the lazily computed digest.              *)
(* digest is the OnceLock<Digest>: <<>> when empty, <<d>> when set.        *)

\* Block::new
BlockNew(header, body, block_type) ==
    [kernel |-> [header |-> header, body |-> body],
     block_type |-> block_type,
     digest |-> <<>>]

\* the value Block::hash returns
block_hash(b) == IF b.digest # <<>> THEN b.digest[1] ELSE kernel_mast_hash(b.kernel)

\* the block after Block::hash: get_or_init fills the empty cell
after_hash(b) == [b EXCEPT !.digest = <<block_hash(b)>>]

\* unset_digest that leaves the OnceLock as it is
unset_digest_keeping_cell(b) == b

\* Block::unset_digest
unset_digest(b) == [b EXCEPT !.digest = <<>>]

\* set_header_nonce without the reset of the cached digest
set_header_nonce_keeping_digest(b, nonce) ==
    [b EXCEPT !.kernel.header.nonce = nonce]

\* Block::set_header_nonce
set_header_nonce(b, nonce) ==
    unset_digest([b EXCEPT !.kernel.header.nonce = nonce])

\* Block::set_header_timestamp_and_difficulty
set_header_timestamp_and_difficulty(b, timestamp, difficulty) ==
    unset_digest([b EXCEPT !.kernel.header.timestamp = timestamp,
                           !.kernel.header.difficulty = difficulty])

\* set_block that resets the cell instead of taking the source block's
set_block_unsetting_digest(b, block) ==
    [b EXCEPT !.kernel.header = block.kernel.header,
              !.kernel.body = block.kernel.body,
              !.digest = <<>>]

\* Block::set_block
set_block(b, block) ==
    [b EXCEPT !.kernel.header = block.kernel.header,
              !.kernel.body = block.kernel.body,
              !.digest = block.digest]

\* #[derive(Clone)]: the kernel, the block type and the cell's content
block_clone(b) == [kernel |-> b.kernel, block_type |-> b.block_type, digest |-> b.digest]

\* #[derive(PartialEq)] as it would compare: field by field, cell included
block_eq_field_by_field(a, b) == a = b

\* impl PartialEq for Block
block_eq(a, b) == block_hash(a) = block_hash(b)

\* BlockType::Standard(proof_type)
Standard(proof_type) ==
    IF proof_type = "Unimplemented" THEN "Standard" ELSE "StandardWithProof"

\* impl From<Block> for TransferBlock panics: the genesis block has no proof type
into_transfer_block_panics(block) == block.block_type = "Genesis"

\* impl From<Block> for TransferBlock
into_transfer_block(block) ==
    [header |-> block.kernel.header,
     body |-> block.kernel.body,
     proof_type |-> IF block.block_type = "Standard" THEN "Unimplemented" ELSE "Proof"]

\* From<TransferBlock> that starts the cell with the default digest in it
from_transfer_block_default_digest(t_block) ==
    [kernel |-> [header |-> t_block.header, body |-> t_block.body],
     block_type |-> Standard(t_block.proof_type),
     digest |-> <<ZeroDigest>>]

\* impl From<TransferBlock> for Block
from_transfer_block(t_block) ==
    [kernel |-> [header |-> t_block.header, body |-> t_block.body],
     block_type |-> Standard(t_block.proof_type),
     digest |-> <<>>]

\* Serialize with #[serde(skip)] on digest: the kernel and the block type
serialize(block) == <<block.kernel, block.block_type>>

\* Deserialize: the skipped field is Default::default()
deserialize(bytes) ==
    [kernel |-> bytes[1], block_type |-> bytes[2], digest |-> <<>>]

\* BFieldCodec::encode with #[bfield_codec(ignore)] on digest
bfieldcodec_encode(block) == [kernel |-> block.kernel, block_type |-> block.block_type]

\* BFieldCodec::decode: the ignored field is Default::default()
bfieldcodec_decode(encoded) ==
    [kernel |-> encoded.kernel, block_type |-> encoded.block_type, digest |-> <<>>]

\* Block::get_mining_reward
RECURSIVE div_two_times(_, _)
div_two_times(reward, n) == IF n = 0 THEN reward ELSE div_two_times(reward \div 2, n - 1)

\* the reward halved once per block instead of once per generation
get_mining_reward_per_block(block_height) == div_two_times(NeptuneCoins(100), block_height)

get_mining_reward(block_height) == div_two_times(NeptuneCoins(100), get_generation(block_height))

\* Block::accumulate_transaction panics: the mutator set update fails
accumulate_transaction_panics(b, transaction, previous_msa) ==
    LET new_transaction == merge_with(b.kernel.body.transaction, transaction)
    IN ~apply_to_accumulator(new_transaction.kernel.inputs,
                             new_transaction.kernel.outputs, previous_msa).ok

\* accumulate_transaction that applies only the incoming transaction to the
\* previous accumulator
accumulate_transaction_incoming_only(b, transaction, previous_msa) ==
    LET merged_timestamp ==
            Max(b.kernel.header.timestamp,
                Max(b.kernel.body.transaction.kernel.timestamp,
                    transaction.kernel.timestamp))
        new_transaction == merge_with(b.kernel.body.transaction, transaction)
        new_msa == apply_to_accumulator(transaction.kernel.inputs,
                                        transaction.kernel.outputs, previous_msa).msa
        block_body ==
            [transaction |-> new_transaction,
             mutator_set_accumulator |-> new_msa,
             lock_free_mmr_accumulator |-> b.kernel.body.lock_free_mmr_accumulator,
             block_mmr_accumulator |-> b.kernel.body.block_mmr_accumulator,
             uncle_blocks |-> b.kernel.body.uncle_blocks]
        block_header ==
            [version |-> b.kernel.header.version,
             height |-> b.kernel.header.height,
             prev_block_digest |-> b.kernel.header.prev_block_digest,
             timestamp |-> merged_timestamp,
             nonce |-> b.kernel.header.nonce,
             max_block_size |-> b.kernel.header.max_block_size,
             proof_of_work_line |-> b.kernel.header.proof_of_work_line,
             proof_of_work_family |-> b.kernel.header.proof_of_work_family,
             difficulty |-> b.kernel.header.difficulty]
    IN unset_digest([b EXCEPT !.kernel.body = block_body, !.kernel.header = block_header])

\* Block::accumulate_transaction
accumulate_transaction(b, transaction, previous_msa) ==
    LET merged_timestamp ==
            Max(b.kernel.header.timestamp,
                Max(b.kernel.body.transaction.kernel.timestamp,
                    transaction.kernel.timestamp))
        new_transaction == merge_with(b.kernel.body.transaction, transaction)
        new_msa == apply_to_accumulator(new_transaction.kernel.inputs,
                                        new_transaction.kernel.outputs, previous_msa).msa
        block_body ==
            [transaction |-> new_transaction,
             mutator_set_accumulator |-> new_msa,
             lock_free_mmr_accumulator |-> b.kernel.body.lock_free_mmr_accumulator,
             block_mmr_accumulator |-> b.kernel.body.block_mmr_accumulator,
             uncle_blocks |-> b.kernel.body.uncle_blocks]
        block_header ==
            [version |-> b.kernel.header.version,
             height |-> b.kernel.header.height,
             prev_block_digest |-> b.kernel.header.prev_block_digest,
             timestamp |-> merged_timestamp,
             nonce |-> b.kernel.header.nonce,
             max_block_size |-> b.kernel.header.max_block_size,
             proof_of_work_line |-> b.kernel.header.proof_of_work_line,
             proof_of_work_family |-> b.kernel.header.proof_of_work_family,
             difficulty |-> b.kernel.header.difficulty]
    IN unset_digest([b EXCEPT !.kernel.body = block_body, !.kernel.header = block_header])

-----------------------------------------------------------------------------
(* Genesis *)

\* the networks a node can be started on
Networks == {"Alpha", "Testnet", "RegTest"}

SixMonths == 15778800               \* Timestamp::months(6), scaled down

\* Block::premine_distribution: the amounts, in coins
PremineAmounts == <<20000, 1337, 42>>

\* a premine whose first receiver alone takes the whole allowance
premine_distribution_over_cap(network) == Map(NeptuneCoins, <<831600, 1337, 42>>)

\* Block::premine_distribution(_network): the receivers (by position) and
\* the amounts; the network is not looked at
premine_distribution(network) == Map(NeptuneCoins, PremineAmounts)

\* Block::premine_utxos(network): native coins under the receiver's lock
\* script, time-locked until six months after the network's launch date
premine_utxos(network, launch_date) ==
    [i \in 1..Len(premine_distribution(network)) |->
        [lock_script |-> i - 1,
         amount |-> premine_distribution(network)[i],
         release_date |-> launch_date[network] + SixMonths]]

\* Hash::hash(&utxo)
utxo_hash(utxo) == <<"utxo_hash", utxo.lock_script, utxo.amount, utxo.release_date>>

\* the premine addition records with the last receiver first
premine_addition_records_reversed(network, launch_date) ==
    LET utxos == premine_utxos(network, launch_date)
    IN [i \in 1..Len(utxos) |->
           commit(utxo_hash(utxos[Len(utxos) + 1 - i]), ZeroDigest,
                  ReceiverDigest(Len(utxos) - i))]

\* Block::genesis_block, the loop over the premine: the addition records,
\* in distribution order, with Digest::default() as sender randomness
premine_addition_records(network, launch_date) ==
    LET utxos == premine_utxos(network, launch_date)
    IN [i \in 1..Len(utxos) |->
           LET utxo_digest == utxo_hash(utxos[i])
               bad_randomness == ZeroDigest
               receiver_digest == ReceiverDigest(i - 1)
           IN commit(utxo_digest, bad_randomness, receiver_digest)]

\* Block::genesis_block(network); launch_date is Network::launch_date, as
\* a function of the network
genesis_block(network, launch_date) ==
    LET total_premine_amount == SeqSum(premine_distribution(network))
        additions == premine_addition_records(network, launch_date)
        genesis_mutator_set == AddAll(EmptyMsa, additions)
        genesis_coinbase_tx ==
            [kernel |->
                [inputs |-> <<>>,
                 outputs |-> additions,
                 public_announcements |-> <<>>,
                 fee |-> NeptuneCoins(0),
                 coinbase |-> <<total_premine_amount>>,
                 timestamp |-> launch_date[network],
                 mutator_set_hash |-> msa_hash(EmptyMsa)],
             valid |-> TRUE]
        body ==
            [transaction |-> genesis_coinbase_tx,
             mutator_set_accumulator |-> genesis_mutator_set,
             lock_free_mmr_accumulator |-> EmptyMmr,
             block_mmr_accumulator |-> EmptyMmr,
             uncle_blocks |-> <<>>]
        header ==
            [version |-> 0,
             height |-> 0,
             prev_block_digest |-> ZeroDigest,
             timestamp |-> launch_date[network],
             nonce |-> <<0, 0, 0>>,
             max_block_size |-> MAX_BLOCK_SIZE,
             proof_of_work_line |-> 0,
             proof_of_work_family |-> 0,
             difficulty |-> MINIMUM_DIFFICULTY]
    IN BlockNew(header, body, "Genesis")

\* the launch dates of a run in which every network was launched at LaunchDate
OneLaunchDate == [n \in Networks |-> LaunchDate]

\* the premine addition records of Block::genesis_block(Network::RegTest)
PremineAdditionRecords == premine_addition_records("RegTest", OneLaunchDate)

\* Block::genesis_block(Network::RegTest)
GenesisBlock == genesis_block("RegTest", OneLaunchDate)

-----------------------------------------------------------------------------
(* Difficulty control *)

\* difficulty_control with the adjustment rounded down instead of toward zero
difficulty_control_floor_division(old_block, new_timestamp, target_block_interval) ==
    IF height_is_genesis(old_block.kernel.header.height)
    THEN old_block.kernel.header.difficulty
    ELSE
      LET target == IF target_block_interval = <<>> THEN TARGET_BLOCK_INTERVAL
                    ELSE target_block_interval[1]
          t == new_timestamp - old_block.kernel.header.timestamp
          new_error == t - target
          adjustment == (-new_error) \div 100
          absolute_adjustment == Abs(adjustment)
      IN IF adjustment >= 0
         THEN old_block.kernel.header.difficulty + absolute_adjustment
         ELSE IF absolute_adjustment
                   > old_block.kernel.header.difficulty - MINIMUM_DIFFICULTY
         THEN MINIMUM_DIFFICULTY
         ELSE old_block.kernel.header.difficulty - absolute_adjustment

\* difficulty_control without the branch that returns MINIMUM_DIFFICULTY
difficulty_control_no_minimum(old_block, new_timestamp, target_block_interval) ==
    IF height_is_genesis(old_block.kernel.header.height)
    THEN old_block.kernel.header.difficulty
    ELSE
      LET target == IF target_block_interval = <<>> THEN TARGET_BLOCK_INTERVAL
                    ELSE target_block_interval[1]
          t == new_timestamp - old_block.kernel.header.timestamp
          new_error == t - target
          adjustment == TruncDiv(-new_error, 100)
          absolute_adjustment == Abs(adjustment)
      IN IF adjustment >= 0
         THEN old_block.kernel.header.difficulty + absolute_adjustment
         ELSE IF absolute_adjustment > old_block.kernel.header.difficulty
         THEN 0
         ELSE old_block.kernel.header.difficulty - absolute_adjustment

\* Block::difficulty_control
difficulty_control(old_block, new_timestamp, target_block_interval) ==
    IF height_is_genesis(old_block.kernel.header.height)
    THEN old_block.kernel.header.difficulty
    ELSE
      LET target == IF target_block_interval = <<>> THEN TARGET_BLOCK_INTERVAL
                    ELSE target_block_interval[1]
          t == new_timestamp - old_block.kernel.header.timestamp
          new_error == t - target
          adjustment == TruncDiv(-new_error, 100)
          absolute_adjustment == Abs(adjustment)
          adjustment_is_positive == adjustment >= 0
      IN IF adjustment_is_positive
         THEN old_block.kernel.header.difficulty + absolute_adjustment
         ELSE IF absolute_adjustment
                   > old_block.kernel.header.difficulty - MINIMUM_DIFFICULTY
         THEN MINIMUM_DIFFICULTY
         ELSE old_block.kernel.header.difficulty - absolute_adjustment

\* The machine integers of difficulty_control, at a scale where every
\* width keeps its place: u64 and i64 have 24 bits, the field of Timestamp
\* has the modulus 2^24 - 2^12 + 1, a difficulty (U32s<5>) has 30 bits.
U64_MODULUS == 16777216
DIFFICULTY_MODULUS == 1073741824

I64_MIN == -(U64_MODULUS \div 2)
I64_MAX == (U64_MODULUS \div 2) - 1
TIMESTAMP_P == U64_MODULUS - 4096 + 1

\* `as i64` of a u64
as_i64(u) == IF u > I64_MAX THEN u - U64_MODULUS ELSE u

\* the i64 a wrapping operation leaves
wrap_i64(x) == ((x - I64_MIN) % U64_MODULUS) + I64_MIN

\* Timestamp - Timestamp: the subtraction of the field
timestamp_sub(a, b) == (a - b) % TIMESTAMP_P

\* The arithmetic steps of difficulty_control that leave the range of their
\* type.  A step that overflows panics in a build with overflow checks and
\* wraps in one without; the later steps are followed on the wrapped value.
difficulty_control_faults(old_block, new_timestamp, target_block_interval) ==
    IF height_is_genesis(old_block.kernel.header.height)
    THEN {}
    ELSE
      LET target == IF target_block_interval = <<>> THEN TARGET_BLOCK_INTERVAL
                    ELSE target_block_interval[1]
          difficulty == old_block.kernel.header.difficulty
          t == timestamp_sub(new_timestamp, old_block.kernel.header.timestamp)
          error == as_i64(t) - as_i64(target)
          new_error == wrap_i64(error)
          adjustment == TruncDiv(wrap_i64(-new_error), 100)
          absolute_adjustment == Abs(adjustment)
          adjustment_is_positive == adjustment >= 0
      IN  (IF new_timestamp < old_block.kernel.header.timestamp
           THEN {"timestamp difference"} ELSE {})
          \cup (IF error # new_error THEN {"signed error"} ELSE {})
          \cup (IF new_error = I64_MIN THEN {"negation"} ELSE {})
          \cup (IF adjustment_is_positive
                   /\ difficulty + absolute_adjustment >= DIFFICULTY_MODULUS
                THEN {"addition"} ELSE {})
          \cup (IF ~adjustment_is_positive /\ difficulty < MINIMUM_DIFFICULTY
                THEN {"subtraction"} ELSE {})

-----------------------------------------------------------------------------
(* Proof of work *)

\* Proof of work.  Digests are compared as numbers; the field modulus and
\* the digest length are scaled down.
BFE_P == 5             \* BFieldElement::P
DIGEST_LENGTH == 3

BFE_MAX == BFE_P - 1

\* BigUint::from(Digest): the limbs in base P, the first the lowest
RECURSIVE digest_to_biguint(_)
digest_to_biguint(limbs) ==
    IF limbs = <<>> THEN 0 ELSE Head(limbs) + BFE_P * digest_to_biguint(Tail(limbs))

\* Digest::try_from(BigUint)
biguint_to_digest(n) ==
    [i \in 1..DIGEST_LENGTH |-> (n \div (BFE_P ^ (i - 1))) % BFE_P]

\* Digest([BFieldElement::new(BFieldElement::MAX); DIGEST_LENGTH])
MaxDigest == [i \in 1..DIGEST_LENGTH |-> BFE_MAX]

\* the assert! of difficulty_to_digest_threshold
difficulty_to_digest_threshold_panics(difficulty) == difficulty = 0

\* Block::difficulty_to_digest_threshold
difficulty_to_digest_threshold(difficulty) ==
    LET difficulty_as_bui == difficulty
        max_threshold_as_bui == digest_to_biguint(MaxDigest)
        threshold_as_bui == max_threshold_as_bui \div difficulty_as_bui
    IN biguint_to_digest(threshold_as_bui)

\* Ord for Digest
digest_leq(a, b) == digest_to_biguint(a) <= digest_to_biguint(b)

\* the limbs of self.hash(): Tip5 is stood for by a mixing of the header's
\* integers, in which every nonce limb moves one limb of the digest
hash_limbs(b) ==
    LET h == b.kernel.header
    IN [i \in 1..DIGEST_LENGTH |->
           (h.nonce[i] + h.height + i * h.difficulty + (h.timestamp \div 100)) % BFE_P]

\* has_proof_of_work with the candidate's own difficulty
has_proof_of_work_own_difficulty(self, previous_block) ==
    digest_leq(hash_limbs(self),
               difficulty_to_digest_threshold(self.kernel.header.difficulty))

\* Block::has_proof_of_work
has_proof_of_work(self, previous_block) ==
    digest_leq(hash_limbs(self),
               difficulty_to_digest_threshold(previous_block.kernel.header.difficulty))

-----------------------------------------------------------------------------
(* Block validation: the checks of Block::is_valid_extended, in order.     *)
(* Each operator is TRUE when its check makes the function return false.   *)

\* 0.a) together with a check of the proof of work
height_and_proof_of_work_check(block_copy, previous_block) ==
    \/ height_next(previous_block.kernel.header.height) # block_copy.kernel.header.height
    \/ ~has_proof_of_work(block_copy, previous_block)

\* 0.a) Block height is previous plus one
height_check_fails(block_copy, previous_block) ==
    height_next(previous_block.kernel.header.height) # block_copy.kernel.header.height

\* 0.b) left out
prev_digest_check_left_out(block_copy, previous_block) == FALSE

\* 0.b) Block header points to previous block
prev_digest_check_fails(block_copy, previous_block) ==
    block_hash(previous_block) # block_copy.kernel.header.prev_block_digest

\* 0.c) comparing the leaf counts only
block_mmr_check_leaf_count_only(block_copy, previous_block) ==
    LET mmra == MmrAppend(previous_block.kernel.body.block_mmr_accumulator,
                          block_hash(previous_block))
    IN mmra.leaf_count # block_copy.kernel.body.block_mmr_accumulator.leaf_count

\* 0.c) asking only that the block MMR has grown
block_mmr_check_growth_only(block_copy, previous_block) ==
    block_copy.kernel.body.block_mmr_accumulator.leaf_count
        <= previous_block.kernel.body.block_mmr_accumulator.leaf_count

\* 0.c) Verify correct addition to block MMR
block_mmr_check_fails(block_copy, previous_block) ==
    LET mmra == MmrAppend(previous_block.kernel.body.block_mmr_accumulator,
                          block_hash(previous_block))
    IN mmra # block_copy.kernel.body.block_mmr_accumulator

\* 0.d) rejecting a timestamp equal to that of the previous block
timestamp_check_strict(block_copy, previous_block) ==
    previous_block.kernel.header.timestamp >= block_copy.kernel.header.timestamp

\* 0.d) Block timestamp is greater than (or equal to) that of previous block
timestamp_check_fails(block_copy, previous_block) ==
    previous_block.kernel.header.timestamp > block_copy.kernel.header.timestamp

\* 0.e) with the default target interval whatever the caller passed
difficulty_check_default_interval(block_copy, previous_block, target_block_interval) ==
    block_copy.kernel.header.difficulty
        # difficulty_control(previous_block, block_copy.kernel.header.timestamp, <<>>)

\* 0.e) Target difficulty was updated correctly
difficulty_check_fails(block_copy, previous_block, target_block_interval) ==
    block_copy.kernel.header.difficulty
        # difficulty_control(previous_block, block_copy.kernel.header.timestamp,
                             target_block_interval)

\* 0.f) accepting a timestamp equal to the future limit
future_check_inclusive(block_copy, now_) ==
    LET future_limit == now_ + TwoHours
    IN block_copy.kernel.header.timestamp > future_limit

\* 0.f) Block timestamp is less than host-time (utc) + 2 hours
future_check_fails(block_copy, now_) ==
    LET future_limit == now_ + TwoHours
    IN block_copy.kernel.header.timestamp >= future_limit

\* 1.b) checking the chunk authentication only, not the bits
removal_records_check_proofs_only(block_copy, previous_block) ==
    \E i \in 1..Len(block_copy.kernel.body.transaction.kernel.inputs) :
        ~removal_record_validate(block_copy.kernel.body.transaction.kernel.inputs[i],
                                 previous_block.kernel.body.mutator_set_accumulator)

\* rule 1.b that fails only when none of the removal records can be removed
removal_records_check_all_fail(block_copy, previous_block) ==
    /\ block_copy.kernel.body.transaction.kernel.inputs # <<>>
    /\ \A i \in 1..Len(block_copy.kernel.body.transaction.kernel.inputs) :
          ~can_remove(previous_block.kernel.body.mutator_set_accumulator,
                      block_copy.kernel.body.transaction.kernel.inputs[i])

\* 1.b) Verify validity of removal records against the previous accumulator
removal_records_check_fails(block_copy, previous_block) ==
    \E i \in 1..Len(block_copy.kernel.body.transaction.kernel.inputs) :
        ~can_remove(previous_block.kernel.body.mutator_set_accumulator,
                    block_copy.kernel.body.transaction.kernel.inputs[i])

\* lexicographic order of two index vectors of equal length (Vec<u128>: Ord)
RECURSIVE VecLeq(_, _)
VecLeq(a, b) ==
    IF a = <<>> THEN TRUE
    ELSE IF b = <<>> THEN FALSE
    ELSE IF Head(a) < Head(b) THEN TRUE
    ELSE IF Head(a) > Head(b) THEN FALSE
    ELSE VecLeq(Tail(a), Tail(b))

RECURSIVE InsertVec(_, _)
InsertVec(x, s) ==
    IF s = <<>> THEN <<x>>
    ELSE IF VecLeq(x, Head(s)) THEN <<x>> \o s
    ELSE <<Head(s)>> \o InsertVec(x, Tail(s))

\* Vec::sort
RECURSIVE SortVecs(_)
SortVecs(s) == IF s = <<>> THEN <<>> ELSE InsertVec(Head(s), SortVecs(Tail(s)))

\* Vec::dedup: removes consecutive repeated elements
RECURSIVE Dedup(_)
Dedup(s) ==
    IF Len(s) <= 1 THEN s
    ELSE IF s[1] = s[2] THEN Dedup(Tail(s))
    ELSE <<Head(s)>> \o Dedup(Tail(s))

\* 1.c) dedup without the sort before it
duplicates_check_unsorted(block_copy) ==
    LET inputs == block_copy.kernel.body.transaction.kernel.inputs
        absolute_index_sets == [i \in 1..Len(inputs) |-> inputs[i].absolute_indices]
    IN Len(Dedup(absolute_index_sets)) # Len(inputs)

\* 1.c) Verify that the removal records do not contain duplicate index sets
duplicates_check_fails(block_copy) ==
    LET inputs == block_copy.kernel.body.transaction.kernel.inputs
        absolute_index_sets == [i \in 1..Len(inputs) |-> inputs[i].absolute_indices]
    IN Len(Dedup(SortVecs(absolute_index_sets))) # Len(inputs)

\* 1.d) the mutator set update cannot be applied to the previous accumulator
ms_update_fails(block_copy, previous_block) ==
    ~apply_to_accumulator(block_copy.kernel.body.transaction.kernel.inputs,
                          block_copy.kernel.body.transaction.kernel.outputs,
                          previous_block.kernel.body.mutator_set_accumulator).ok

\* 1.d) comparing the locally constructed mutator set with itself
ms_hash_check_against_itself(block_copy, previous_block) ==
    LET ms == apply_to_accumulator(
                  block_copy.kernel.body.transaction.kernel.inputs,
                  block_copy.kernel.body.transaction.kernel.outputs,
                  previous_block.kernel.body.mutator_set_accumulator).msa
    IN msa_hash(ms) # msa_hash(ms)

\* 1.d) the locally constructed mutator set does not match the block's
ms_hash_check_fails(block_copy, previous_block) ==
    LET ms == apply_to_accumulator(
                  block_copy.kernel.body.transaction.kernel.inputs,
                  block_copy.kernel.body.transaction.kernel.outputs,
                  previous_block.kernel.body.mutator_set_accumulator).msa
    IN msa_hash(ms) # msa_hash(block_copy.kernel.body.mutator_set_accumulator)

\* 1.e) transaction timestamp <= block timestamp
tx_timestamp_check_fails(block_copy) ==
    block_copy.kernel.body.transaction.kernel.timestamp
        > block_copy.kernel.header.timestamp

\* 1.f) allowing one unit more than reward plus fee
coinbase_check_off_by_one(block_copy) ==
    LET miner_reward == get_mining_reward(block_copy.kernel.header.height)
                            + block_copy.kernel.body.transaction.kernel.fee
        coinbase == block_copy.kernel.body.transaction.kernel.coinbase
    IN coinbase # <<>> /\ coinbase[1] > miner_reward + 1

\* 1.f) transaction coinbase <= miner reward
coinbase_check_fails(block_copy) ==
    LET miner_reward == get_mining_reward(block_copy.kernel.header.height)
                            + block_copy.kernel.body.transaction.kernel.fee
        coinbase == block_copy.kernel.body.transaction.kernel.coinbase
    IN coinbase # <<>> /\ coinbase[1] > miner_reward

\* 1.g) transaction is valid (internally consistent)
transaction_check_fails(block_copy) ==
    ~transaction_is_valid(block_copy.kernel.body.transaction)

\* is_valid_extended with the mutator set update checked before the
\* duplicate index sets
validation_outcome_update_before_duplicates(self, previous_block, now_, target_block_interval) ==
    LET block_copy == self
    IN IF height_check_fails(block_copy, previous_block) THEN "0.a"
       ELSE IF prev_digest_check_fails(block_copy, previous_block) THEN "0.b"
       ELSE IF block_mmr_check_fails(self, previous_block) THEN "0.c"
       ELSE IF timestamp_check_fails(block_copy, previous_block) THEN "0.d"
       ELSE IF difficulty_check_fails(block_copy, previous_block,
                                      target_block_interval) THEN "0.e"
       ELSE IF future_check_fails(block_copy, now_) THEN "0.f"
       ELSE IF removal_records_check_fails(block_copy, previous_block) THEN "1.b"
       ELSE IF ms_update_fails(block_copy, previous_block) THEN "1.d.update"
       ELSE IF ms_hash_check_fails(block_copy, previous_block) THEN "1.d.hash"
       ELSE IF duplicates_check_fails(block_copy) THEN "1.c"
       ELSE IF tx_timestamp_check_fails(block_copy) THEN "1.e"
       ELSE IF coinbase_check_fails(block_copy) THEN "1.f"
       ELSE IF transaction_check_fails(block_copy) THEN "1.g"
       ELSE "valid"

\* the return point of Block::is_valid_extended: the first failing check,
\* or "valid"
validation_outcome(self, previous_block, now_, target_block_interval) ==
    LET block_copy == self
    IN IF height_check_fails(block_copy, previous_block) THEN "0.a"
       ELSE IF prev_digest_check_fails(block_copy, previous_block) THEN "0.b"
       ELSE IF block_mmr_check_fails(self, previous_block) THEN "0.c"
       ELSE IF timestamp_check_fails(block_copy, previous_block) THEN "0.d"
       ELSE IF difficulty_check_fails(block_copy, previous_block,
                                      target_block_interval) THEN "0.e"
       ELSE IF future_check_fails(block_copy, now_) THEN "0.f"
       ELSE IF removal_records_check_fails(block_copy, previous_block) THEN "1.b"
       ELSE IF duplicates_check_fails(block_copy) THEN "1.c"
       ELSE IF ms_update_fails(block_copy, previous_block) THEN "1.d.update"
       ELSE IF ms_hash_check_fails(block_copy, previous_block) THEN "1.d.hash"
       ELSE IF tx_timestamp_check_fails(block_copy) THEN "1.e"
       ELSE IF coinbase_check_fails(block_copy) THEN "1.f"
       ELSE IF transaction_check_fails(block_copy) THEN "1.g"
       ELSE "valid"

\* Block::is_valid_extended
is_valid_extended(self, previous_block, now_, target_block_interval) ==
    validation_outcome(self, previous_block, now_, target_block_interval) = "valid"

\* Block::is_valid
is_valid(self, previous_block, now_) == is_valid_extended(self, previous_block, now_, <<>>)

-----------------------------------------------------------------------------
(* Building a successor block *)

\* make_mock_block: a block on top of previous_block with one coinbase
\* output for UTXO k
make_mock_block(previous_block, block_timestamp, k) ==
    LET new_block_height == height_next(previous_block.kernel.header.height)
        coinbase_amount == get_mining_reward(new_block_height)
        previous_mutator_set == previous_block.kernel.body.mutator_set_accumulator
        block_mmr == MmrAppend(previous_block.kernel.body.block_mmr_accumulator,
                               block_hash(previous_block))
        coinbase_addition_record == AdditionRecordOf(k)
        next_mutator_set == msa_add(previous_mutator_set, coinbase_addition_record)
        timestamp == IF block_timestamp = <<>>
                     THEN previous_block.kernel.header.timestamp + TARGET_BLOCK_INTERVAL
                     ELSE block_timestamp[1]
        tx_kernel ==
            [inputs |-> <<>>,
             outputs |-> <<coinbase_addition_record>>,
             public_announcements |-> <<>>,
             fee |-> 0,
             coinbase |-> <<coinbase_amount>>,
             timestamp |-> timestamp,
             mutator_set_hash |-> msa_hash(previous_mutator_set)]
        block_body ==
            [transaction |-> [kernel |-> tx_kernel, valid |-> TRUE],
             mutator_set_accumulator |-> next_mutator_set,
             lock_free_mmr_accumulator |-> EmptyMmr,
             block_mmr_accumulator |-> block_mmr,
             uncle_blocks |-> <<>>]
        new_pow == previous_block.kernel.header.proof_of_work_family
                       + previous_block.kernel.header.difficulty
        block_header ==
            [version |-> 0,
             height |-> new_block_height,
             prev_block_digest |-> block_hash(previous_block),
             timestamp |-> timestamp,
             nonce |-> <<0, 0, 0>>,
             max_block_size |-> MAX_BLOCK_SIZE,
             proof_of_work_line |-> new_pow,
             proof_of_work_family |-> new_pow,
             difficulty |-> difficulty_control(previous_block, timestamp, <<>>)]
    IN BlockNew(block_header, block_body, "Standard")

-----------------------------------------------------------------------------
(* Removal records and transactions offered to the model *)

\* the evicted chunks after the additions are applied to msa
RECURSIVE ChunksAfter(_, _, _)
ChunksAfter(chs, msa, additions) ==
    IF additions = <<>> THEN chs
    ELSE ChunksAfter(IF window_slides(msa.aocl.leaf_count)
                     THEN Append(chs, slid_chunk(msa.swbf_active)) ELSE chs,
                     msa_add(msa, Head(additions)), Tail(additions))

\* drop: the removal record of the item added at leaf_index, with the
\* chunks of its inactive indices and their authentication paths
RemovalRecordOf(leaf_index, chs) ==
    LET indices == get_swbf_indices(leaf_index, leaf_index)
        chunk_indices == {indices[j] \div CHUNK_SIZE : j \in 1..Len(indices)}
        inactive == SetToSortedSeq({c \in chunk_indices : c < Len(chs)})
        digests == Map(chunk_digest, chs)
    IN [absolute_indices |-> indices,
        target_chunks |-> [i \in 1..Len(inactive) |->
                              [chunk_index |-> inactive[i],
                               path |-> MmrProve(digests, inactive[i]),
                               chunk |-> chs[inactive[i] + 1]]]]

\* the chunks and authentication paths a holder of item k at leaf_index
\* needs for the indices that have left the active window
target_chunks_of(k, leaf_index, chs) ==
    LET indices == get_swbf_indices(k, leaf_index)
        chunk_indices == {indices[j] \div CHUNK_SIZE : j \in 1..Len(indices)}
        inactive == SetToSortedSeq({c \in chunk_indices : c < Len(chs)})
        digests == Map(chunk_digest, chs)
    IN [i \in 1..Len(inactive) |->
           [chunk_index |-> inactive[i],
            path |-> MmrProve(digests, inactive[i]),
            chunk |-> chs[inactive[i] + 1]]]

\* prove(item, randomness), called before add(record): the authentication
\* path the commitment will have as the next leaf of the AOCL; the indices
\* of a new item all lie in the window that is active after the add
prove(k, leafs) ==
    [leaf_index |-> Len(leafs),
     auth_path_aocl |->
        MmrProve(Append(leafs, AdditionRecordOf(k).canonical_commitment), Len(leafs)),
     target_chunks |-> <<>>]

\* drop(item, membership_proof) -> RemovalRecord
drop(k, mp) ==
    [absolute_indices |-> get_swbf_indices(k, mp.leaf_index),
     target_chunks |-> mp.target_chunks]

\* the proof's dictionary holds a chunk for every index of the item that the
\* window has slid past
entries_in_dictionary(msa, k, mp) ==
    \A j \in 1..Len(get_swbf_indices(k, mp.leaf_index)) :
        LET index == get_swbf_indices(k, mp.leaf_index)[j]
        IN index < active_window_start(msa)
              => TargetChunk(drop(k, mp), index \div CHUNK_SIZE) # {}

\* verify(item, membership_proof): the AOCL path is valid, every index below
\* the active window comes with its chunk, and at least one of the item's
\* indices reads 0
ms_verify(msa, k, mp) ==
    /\ MmrVerify(msa.aocl, mp.leaf_index, AdditionRecordOf(k).canonical_commitment,
                 mp.auth_path_aocl)
    /\ entries_in_dictionary(msa, k, mp)
    /\ can_remove(msa, drop(k, mp))

\* update_from_addition that takes up evicted chunks and keeps the AOCL path
update_from_addition_keeping_path(mp, k, leafs, chs) ==
    [mp EXCEPT !.target_chunks = target_chunks_of(k, mp.leaf_index, chs)]

\* update_from_addition that renews the AOCL path and takes up no chunk
update_from_addition_keeping_chunks(mp, k, leafs, chs) ==
    [mp EXCEPT !.auth_path_aocl = MmrProve(leafs, mp.leaf_index)]

\* MsMembershipProof::update_from_addition, given the AOCL leaves and the
\* evicted chunks after the addition: the new AOCL path, and the chunks of
\* the indices the window has slid past
update_from_addition(mp, k, leafs, chs) ==
    [mp EXCEPT !.auth_path_aocl = MmrProve(leafs, mp.leaf_index),
               !.target_chunks = target_chunks_of(k, mp.leaf_index, chs)]

\* MsMembershipProof::update_from_remove: the bits of the removal record
\* that fall into chunks the proof holds are set in the proof's copy
update_from_remove(mp, rr) ==
    [mp EXCEPT !.target_chunks =
        [i \in 1..Len(@) |->
            [@[i] EXCEPT !.chunk =
                @ \cup {rr.absolute_indices[j] % CHUNK_SIZE :
                           j \in {n \in 1..Len(rr.absolute_indices) :
                                     rr.absolute_indices[n] \div CHUNK_SIZE
                                         = mp.target_chunks[i].chunk_index}}]]]

\* batch_remove(records, preserved_proofs), a preserved proof: the gathered
\* bits that fall into chunks the proof holds are set in the proof's copy
batch_update_from_remove(mp, records) ==
    [mp EXCEPT !.target_chunks =
        [i \in 1..Len(@) |->
            [@[i] EXCEPT !.chunk =
                @ \cup {index % CHUNK_SIZE :
                           index \in {n \in batch_indices(records) :
                                         n \div CHUNK_SIZE
                                             = mp.target_chunks[i].chunk_index}}]]]

\* a removal record whose chunk is not the one the Bloom filter commits to
ForgedRemovalRecord(leaf_index, chs) ==
    LET rr == RemovalRecordOf(leaf_index, chs)
    IN [rr EXCEPT !.target_chunks =
           [i \in 1..Len(@) |-> [@[i] EXCEPT !.chunk = @ \cup {0}]]]

\* a transaction without coinbase
MakeTransaction(inputs, outputs, fee, timestamp, msa, valid) ==
    [kernel |-> [inputs |-> inputs,
                 outputs |-> outputs,
                 public_announcements |-> <<>>,
                 fee |-> fee,
                 coinbase |-> <<>>,
                 timestamp |-> timestamp,
                 mutator_set_hash |-> msa_hash(msa)],
     valid |-> valid]

-----------------------------------------------------------------------------
(* Initial state *)

GenesisMsa == GenesisBlock.kernel.body.mutator_set_accumulator

GenesisChunks == ChunksAfter(<<>>, EmptyMsa, PremineAdditionRecords)

BlockInit ==
    /\ blocks = [w \in {"a", "b"} |-> GenesisBlock]
    /\ ops = 0
    /\ ret = <<>>
    /\ parent = GenesisBlock
    /\ chunks = GenesisChunks
    /\ cand = GenesisBlock
    /\ merged = 0
    /\ edits = 0
    /\ now = LaunchDate
    /\ tbi = <<>>
    /\ verdict = "none"

\* no call of a pure function made
NoCalc == [op |-> "none"]

\* no mutator set under test
NoMs == [op |-> "none"]

\* no chain under construction
NoChain == [op |-> "none"]

\* no block shared between threads
NoConc == [op |-> "none"]

Init ==
    /\ BlockInit
    /\ calc = NoCalc
    /\ mset = NoMs
    /\ chain = NoChain
    /\ conc = NoConc

-----------------------------------------------------------------------------
(* The Block operations, applied to either of two blocks *)

Names == {"a", "b"}

\* the accumulator a block of this height is built on
PreviousMsaOf(b) == IF b.kernel.header.height = 0 THEN EmptyMsa ELSE GenesisMsa

\* kernels handed to Block::new
NewBlockArgs ==
    {GenesisBlock, make_mock_block(GenesisBlock, <<>>, GenesisMsa.aocl.leaf_count)}

\* transactions handed to accumulate_transaction
BlockOpTransactions(b) ==
    LET prev == PreviousMsaOf(b)
        next_leaf == b.kernel.body.mutator_set_accumulator.aocl.leaf_count
        spendable == IF b.kernel.header.height = 0 THEN {<<>>}
                     ELSE {<<>>, <<RemovalRecordOf(2, GenesisChunks)>>}
    IN {MakeTransaction(inputs, <<AdditionRecordOf(next_leaf)>>, NeptuneCoins(1), ts,
                        prev, TRUE) :
           inputs \in spendable,
           ts \in {b.kernel.header.timestamp, b.kernel.header.timestamp + 1000}}

OpNew(w) ==
    /\ ops < MaxOps
    /\ \E src \in NewBlockArgs :
          blocks' = [blocks EXCEPT ![w] =
                        BlockNew(src.kernel.header, src.kernel.body, src.block_type)]
    /\ ops' = ops + 1
    /\ ret' = <<>>
    /\ UNCHANGED <<validVars, pureVars>>

OpHash(w) ==
    /\ ops < MaxOps
    /\ blocks' = [blocks EXCEPT ![w] = after_hash(blocks[w])]
    /\ ret' = <<w, block_hash(blocks[w])>>
    /\ ops' = ops + 1
    /\ UNCHANGED <<validVars, pureVars>>

OpSetHeaderNonce(w) ==
    /\ ops < MaxOps
    /\ \E nonce \in {<<0, 0, 0>>, <<1, 1, 1>>} :
          blocks' = [blocks EXCEPT ![w] = set_header_nonce(blocks[w], nonce)]
    /\ ops' = ops + 1
    /\ ret' = <<>>
    /\ UNCHANGED <<validVars, pureVars>>

OpSetHeaderTimestampAndDifficulty(w) ==
    /\ ops < MaxOps
    /\ \E timestamp \in {LaunchDate, LaunchDate + TARGET_BLOCK_INTERVAL},
          difficulty \in {MINIMUM_DIFFICULTY, MINIMUM_DIFFICULTY + 5} :
          blocks' = [blocks EXCEPT ![w] =
              set_header_timestamp_and_difficulty(blocks[w], timestamp, difficulty)]
    /\ ops' = ops + 1
    /\ ret' = <<>>
    /\ UNCHANGED <<validVars, pureVars>>

OpSetBlock(w) ==
    /\ ops < MaxOps
    /\ \E v \in Names \ {w} :
          blocks' = [blocks EXCEPT ![w] = set_block(blocks[w], block_clone(blocks[v]))]
    /\ ops' = ops + 1
    /\ ret' = <<>>
    /\ UNCHANGED <<validVars, pureVars>>

OpAccumulateTransaction(w) ==
    /\ ops < MaxOps
    /\ \E tx \in BlockOpTransactions(blocks[w]) :
          /\ ~accumulate_transaction_panics(blocks[w], tx, PreviousMsaOf(blocks[w]))
          /\ blocks' = [blocks EXCEPT ![w] =
                 accumulate_transaction(blocks[w], tx, PreviousMsaOf(blocks[w]))]
    /\ ops' = ops + 1
    /\ ret' = <<>>
    /\ UNCHANGED <<validVars, pureVars>>

OpClone(w) ==
    /\ ops < MaxOps
    /\ \E v \in Names \ {w} :
          blocks' = [blocks EXCEPT ![w] = block_clone(blocks[v])]
    /\ ops' = ops + 1
    /\ ret' = <<>>
    /\ UNCHANGED <<validVars, pureVars>>

NextBlock ==
    \E w \in Names :
        \/ OpNew(w)
        \/ OpHash(w)
        \/ OpSetHeaderNonce(w)
        \/ OpSetHeaderTimestampAndDifficulty(w)
        \/ OpSetBlock(w)
        \/ OpAccumulateTransaction(w)
        \/ OpClone(w)

SpecBlock == Init /\ [][NextBlock]_vars

-----------------------------------------------------------------------------
(* C1: whenever the digest cache of a block is populated it holds the MAST  *)
(* hash of the block's current kernel, and the digest hash() has just       *)
(* returned is the MAST hash of the current kernel.                         *)

C1_CachedDigestIsCurrent ==
    /\ \A w \in Names :
          blocks[w].digest # <<>>
              => blocks[w].digest[1] = kernel_mast_hash(blocks[w].kernel)
    /\ ret # <<>> => ret[2] = kernel_mast_hash(blocks[ret[1]].kernel)

\* a block was hashed, modified, and hashed again
C1_Witness ==
    /\ ret # <<>>
    /\ ops >= 3
    /\ blocks[ret[1]].digest = <<ret[2]>>
    /\ blocks[ret[1]].kernel # GenesisBlock.kernel
    /\ \E v \in Names \ {ret[1]} :
          /\ blocks[v].digest # <<>>
          /\ blocks[v].digest # blocks[ret[1]].digest

-----------------------------------------------------------------------------
(* Validation of candidate blocks against the chain tip *)

ParentMsa == parent.kernel.body.mutator_set_accumulator

ParentTimestamp == parent.kernel.header.timestamp

\* timestamps handed to make_mock_block
MockTimestamps ==
    {<<>>, <<ParentTimestamp>>,
           <<ParentTimestamp + TARGET_BLOCK_INTERVAL - 500>>,
           <<ParentTimestamp + TARGET_BLOCK_INTERVAL + 300>>}

\* the lists of removal records a transaction or a received block may carry
InputLists ==
    LET n == ParentMsa.aocl.leaf_count
        rr(i) == RemovalRecordOf(i, chunks)
    IN {<<rr(i)>> : i \in 0..(n - 1)}
         \cup {<<ForgedRemovalRecord(1, chunks)>>}
         \cup {<<rr(n - 1), rr(n - 1)>>, <<rr(n - 2), rr(n - 1)>>,
               <<rr(n - 1), rr(n - 2), rr(n - 1)>>}

\* transactions offered for merging into the candidate
MergeTransactions ==
    {MakeTransaction(ins, <<>>, NeptuneCoins(1), cand.kernel.header.timestamp + later,
                     ParentMsa, TRUE) : ins \in InputLists, later \in {0, 1000}}

\* make_mock_block(&parent, block_timestamp, ..)
MakeMockBlock ==
    /\ \E ts \in MockTimestamps :
          cand' = make_mock_block(parent, ts, ParentMsa.aocl.leaf_count)
    /\ parent' = after_hash(parent)
    /\ merged' = 0
    /\ edits' = 0
    /\ verdict' = "none"
    /\ now' = LaunchDate
    /\ tbi' = <<>>
    /\ UNCHANGED chunks
    /\ UNCHANGED <<blockVars, pureVars>>

\* cand.accumulate_transaction(tx, &parent.body.mutator_set_accumulator)
AccumulateTransaction ==
    /\ cand # parent
    /\ merged < MaxMerges
    /\ edits = 0
    /\ \E tx \in MergeTransactions :
          /\ ~accumulate_transaction_panics(cand, tx, ParentMsa)
          /\ cand' = accumulate_transaction(cand, tx, ParentMsa)
    /\ merged' = merged + 1
    /\ verdict' = "none"
    /\ now' = LaunchDate
    /\ tbi' = <<>>
    /\ UNCHANGED <<parent, chunks, edits>>
    /\ UNCHANGED <<blockVars, pureVars>>

\* a received block differs from a mined one in one more field
Edit(block) ==
    /\ cand # parent
    /\ edits < MaxEdits
    /\ cand' = block
    /\ cand' # cand
    /\ edits' = edits + 1
    /\ verdict' = "none"
    /\ now' = LaunchDate
    /\ tbi' = <<>>
    /\ UNCHANGED <<parent, chunks, merged>>
    /\ UNCHANGED <<blockVars, pureVars>>

SetHeight ==
    \E h \in {parent.kernel.header.height, parent.kernel.header.height + 2} :
        Edit([cand EXCEPT !.kernel.header.height = h])

SetPrevBlockDigest ==
    \E d \in {ZeroDigest, kernel_mast_hash(cand.kernel)} :
        Edit([cand EXCEPT !.kernel.header.prev_block_digest = d])

SetBlockMmr ==
    \E m \in {EmptyMmr, parent.kernel.body.block_mmr_accumulator,
              MmrAppend(parent.kernel.body.block_mmr_accumulator, ZeroDigest)} :
        Edit([cand EXCEPT !.kernel.body.block_mmr_accumulator = m])

SetTimestamp ==
    \E dt \in {-1000, 0, 3600000, TwoHours - 1000, TwoHours, TwoHours + 10000} :
        Edit([cand EXCEPT !.kernel.header.timestamp = ParentTimestamp + dt])

SetDifficulty ==
    \E d \in {MINIMUM_DIFFICULTY, cand.kernel.header.difficulty + 1} :
        Edit([cand EXCEPT !.kernel.header.difficulty = d])

SetInputs ==
    \E ins \in InputLists :
        Edit([cand EXCEPT !.kernel.body.transaction.kernel.inputs = ins])

SetMutatorSet ==
    \E m \in {ParentMsa,
              apply_to_accumulator(cand.kernel.body.transaction.kernel.inputs,
                                   cand.kernel.body.transaction.kernel.outputs,
                                   ParentMsa).msa} :
        Edit([cand EXCEPT !.kernel.body.mutator_set_accumulator = m])

SetTransactionTimestamp ==
    \E dt \in {0, 1000} :
        Edit([cand EXCEPT !.kernel.body.transaction.kernel.timestamp =
                              cand.kernel.header.timestamp + dt])

SetCoinbase ==
    LET limit == get_mining_reward(cand.kernel.header.height)
                     + cand.kernel.body.transaction.kernel.fee
    IN \E c \in {<<>>, <<limit>>, <<limit + 1>>, <<limit - 1>>} :
          Edit([cand EXCEPT !.kernel.body.transaction.kernel.coinbase = c])

SetFee ==
    \E f \in {NeptuneCoins(0), NeptuneCoins(1)} :
        Edit([cand EXCEPT !.kernel.body.transaction.kernel.fee = f])

SetTransactionInvalid ==
    Edit([cand EXCEPT !.kernel.body.transaction.valid = FALSE])

\* the host times and target intervals of a call
NowSet == {ParentTimestamp, ParentTimestamp + TARGET_BLOCK_INTERVAL}

\* the previous block after a validation that applies the mutator set
\* update to the previous block's own accumulator
previous_block_updated_in_place(self, previous_block) ==
    IF height_check_fails(self, previous_block)
    THEN previous_block
    ELSE LET upd == apply_to_accumulator(self.kernel.body.transaction.kernel.inputs,
                                         self.kernel.body.transaction.kernel.outputs,
                                         previous_block.kernel.body.mutator_set_accumulator)
         IN IF upd.ok
            THEN [after_hash(previous_block) EXCEPT
                     !.kernel.body.mutator_set_accumulator = upd.msa]
            ELSE after_hash(previous_block)

\* the previous block after is_valid_extended returns: rule 0.b reads
\* previous_block.hash(), which fills the digest cache; the mutator set
\* update of rule 1.d is applied to a clone of its accumulator
previous_block_after_validation(self, previous_block) ==
    IF height_check_fails(self, previous_block)
    THEN previous_block
    ELSE after_hash(previous_block)

\* cand.is_valid_extended(&parent, now, target_block_interval)
Validate ==
    /\ cand # parent
    /\ verdict = "none"
    /\ \E n \in NowSet, t \in {<<>>, <<TARGET_BLOCK_INTERVAL - 1000>>} :
          /\ now' = n
          /\ tbi' = t
          /\ verdict' = validation_outcome(cand, parent, n, t)
    /\ parent' = previous_block_after_validation(cand, parent)
    /\ UNCHANGED <<chunks, cand, merged, edits>>
    /\ UNCHANGED <<blockVars, pureVars>>

\* the caller makes a valid block the new tip
Accept ==
    /\ verdict = "valid"
    /\ tbi = <<>>
    /\ edits = 0
    /\ parent.kernel.header.height < MaxHeight
    /\ parent' = cand
    /\ chunks' = ChunksAfter(chunks, ParentMsa, cand.kernel.body.transaction.kernel.outputs)
    /\ verdict' = "none"
    /\ now' = LaunchDate
    /\ tbi' = <<>>
    /\ UNCHANGED <<cand, merged, edits>>
    /\ UNCHANGED <<blockVars, pureVars>>

Next ==
    \/ MakeMockBlock
    \/ AccumulateTransaction
    \/ SetHeight
    \/ SetPrevBlockDigest
    \/ SetBlockMmr
    \/ SetTimestamp
    \/ SetDifficulty
    \/ SetInputs
    \/ SetMutatorSet
    \/ SetTransactionTimestamp
    \/ SetCoinbase
    \/ SetFee
    \/ SetTransactionInvalid
    \/ Validate
    \/ Accept

Spec == Init /\ [][Next]_vars

-----------------------------------------------------------------------------
(* Properties of is_valid_extended *)

\* is_valid_extended has returned
Judged == verdict # "none"

\* is_valid_extended has returned true
Accepted == verdict = "valid"

CandHeader == cand.kernel.header

CandBody == cand.kernel.body

CandTx == cand.kernel.body.transaction.kernel

ParentDigest == kernel_mast_hash(parent.kernel)

\* C2: is_valid_extended accepts only if MutatorSetUpdate(inputs, outputs)
\* applies to a copy of the parent's accumulator without error and gives an
\* accumulator whose hash is the hash of the candidate body's accumulator;
\* an error or a mismatch gives the verdict false.
C2_MutatorSetUpdateMatches ==
    Judged =>
        LET upd == apply_to_accumulator(CandTx.inputs, CandTx.outputs, ParentMsa)
        IN /\ ~upd.ok => ~Accepted
           /\ msa_hash(upd.msa) # msa_hash(CandBody.mutator_set_accumulator)
                 => ~Accepted
           /\ verdict \in {"1.d.update", "1.d.hash"}
                 => \/ ~upd.ok
                    \/ msa_hash(upd.msa) # msa_hash(CandBody.mutator_set_accumulator)

\* a candidate that spends an item and reports the parent's accumulator is
\* rejected at the comparison of the hashes
C2_Witness ==
    /\ verdict = "1.d.hash"
    /\ CandTx.inputs # <<>>
    /\ apply_to_accumulator(CandTx.inputs, CandTx.outputs, ParentMsa).ok
    /\ CandBody.mutator_set_accumulator = ParentMsa

\* C3: is_valid_extended returns false when some input fails can_remove
\* against the parent's accumulator (all its indices read 1, or its chunk
\* authentication does not match); every accepted candidate has all its
\* inputs removable.
C3_InputsRemovable ==
    Judged =>
        /\ Accepted => \A i \in 1..Len(CandTx.inputs) :
                          can_remove(ParentMsa, CandTx.inputs[i])
        /\ \A i \in 1..Len(CandTx.inputs) :
              \/ ~removal_record_validate(CandTx.inputs[i], ParentMsa)
              \/ \A j \in 1..NUM_TRIALS :
                    ~index_reads_zero(CandTx.inputs[i], ParentMsa,
                                      CandTx.inputs[i].absolute_indices[j])
              => ~Accepted

\* a candidate on a tip that spent an item, spending that item again, is
\* rejected for its removal record
C3_Witness ==
    /\ verdict = "1.b"
    /\ \E i \in 1..Len(CandTx.inputs) :
          /\ removal_record_validate(CandTx.inputs[i], ParentMsa)
          /\ \A j \in 1..NUM_TRIALS :
                ~index_reads_zero(CandTx.inputs[i], ParentMsa,
                                  CandTx.inputs[i].absolute_indices[j])

\* the absolute-index sets of the candidate's inputs are pairwise distinct
PairwiseDistinctIndexSets ==
    \A i, j \in 1..Len(CandTx.inputs) :
        i # j => CandTx.inputs[i].absolute_indices # CandTx.inputs[j].absolute_indices

\* C4: is_valid_extended returns false when two inputs carry the same
\* absolute-index set, and the duplicate check rejects no candidate whose
\* index sets are pairwise distinct.
C4_NoDuplicateIndexSets ==
    Judged =>
        /\ ~PairwiseDistinctIndexSets => ~Accepted
        /\ verdict = "1.c" => ~PairwiseDistinctIndexSets

\* three removable inputs, the first and the last the same, rejected by the
\* duplicate check
C4_Witness ==
    /\ verdict = "1.c"
    /\ Len(CandTx.inputs) = 3
    /\ CandTx.inputs[1] = CandTx.inputs[3]
    /\ CandTx.inputs[1] # CandTx.inputs[2]

\* C5: an accepted candidate has the parent's height plus one and the
\* parent's hash as prev_block_digest; a candidate violating either is
\* rejected.
C5_HeightAndPrevDigest ==
    Judged =>
        /\ Accepted => /\ CandHeader.height = parent.kernel.header.height + 1
                       /\ CandHeader.prev_block_digest = ParentDigest
        /\ CandHeader.height # parent.kernel.header.height + 1 => ~Accepted
        /\ CandHeader.prev_block_digest # ParentDigest => ~Accepted

\* a candidate of the right height pointing to another block is rejected
C5_Witness ==
    /\ verdict = "0.b"
    /\ CandHeader.height = parent.kernel.header.height + 1
    /\ CandHeader.prev_block_digest # ParentDigest
    /\ parent.kernel.header.height = 1

\* C6: is_valid_extended accepts only if the candidate's block MMR is the
\* parent's block MMR with the parent's hash appended; a successor of
\* genesis with the empty block MMR is rejected.
C6_BlockMmrExtended ==
    Judged =>
        /\ Accepted =>
              CandBody.block_mmr_accumulator
                  = MmrAppend(parent.kernel.body.block_mmr_accumulator, ParentDigest)
        /\ (parent.kernel = GenesisBlock.kernel
               /\ CandBody.block_mmr_accumulator = EmptyMmr) => ~Accepted

\* a successor of genesis whose block MMR was replaced by the empty MMR is
\* rejected at the block MMR check
C6_Witness ==
    /\ verdict = "0.c"
    /\ parent.kernel = GenesisBlock.kernel
    /\ CandBody.block_mmr_accumulator = EmptyMmr

\* the minimum block time the specification names
MINIMUM_BLOCK_TIME == 60000

C8_NotTooFarInFuture ==
    Judged =>
        /\ Accepted => CandHeader.timestamp < now + TwoHours
        /\ CandHeader.timestamp >= now + TwoHours => ~Accepted
        /\ verdict = "0.f" => CandHeader.timestamp >= now + TwoHours
        /\ (edits = 1 /\ merged = 0
               /\ parent.kernel = GenesisBlock.kernel
               /\ cand.kernel.body = make_mock_block(parent, <<>>, ParentMsa.aocl.leaf_count).kernel.body
               /\ cand.kernel.header =
                     [make_mock_block(parent, <<>>, ParentMsa.aocl.leaf_count).kernel.header
                         EXCEPT !.timestamp = CandHeader.timestamp]
               /\ CandHeader.timestamp >= CandTx.timestamp)
              => (Accepted <=> CandHeader.timestamp < now + TwoHours)

\* a candidate one second before the limit is accepted
C8_Witness ==
    /\ Accepted
    /\ CandHeader.timestamp = now + TwoHours - 1000

\* C9: an accepted candidate has the difficulty difficulty_control gives for
\* the parent, the candidate's timestamp and the target interval of the
\* call; any other difficulty is rejected.
C9_DifficultyFromControl ==
    Judged =>
        /\ Accepted =>
              CandHeader.difficulty
                  = difficulty_control(parent, CandHeader.timestamp, tbi)
        /\ CandHeader.difficulty
              # difficulty_control(parent, CandHeader.timestamp, tbi) => ~Accepted

\* a block mined for the default interval is rejected when validated with
\* another target interval
C9_Witness ==
    /\ verdict = "0.e"
    /\ tbi # <<>>
    /\ edits = 0
    /\ CandHeader.difficulty
          = difficulty_control(parent, CandHeader.timestamp, <<>>)

\* C10: a candidate is accepted only if its coinbase is absent or at most
\* get_mining_reward(height) plus the fee; a larger coinbase is rejected.
C10_CoinbaseWithinReward ==
    Judged =>
        /\ Accepted =>
              \/ CandTx.coinbase = <<>>
              \/ CandTx.coinbase[1]
                    <= get_mining_reward(CandHeader.height) + CandTx.fee
        /\ (CandTx.coinbase # <<>>
               /\ CandTx.coinbase[1]
                     > get_mining_reward(CandHeader.height) + CandTx.fee)
              => ~Accepted
        /\ verdict = "1.f" => CandTx.coinbase # <<>>

\* a coinbase one unit above reward plus fee is rejected at the coinbase
\* check, with a fee in the sum
C10_Witness ==
    /\ verdict = "1.f"
    /\ CandTx.fee > 0
    /\ CandTx.coinbase
          = <<get_mining_reward(CandHeader.height) + CandTx.fee + 1>>

-----------------------------------------------------------------------------
(* Order of the rules *)

\* what each rule demands, in the order of the checks: height, prev digest,
\* block MMR, timestamp vs parent, difficulty, future limit, removability,
\* duplicate index sets, mutator set, transaction timestamp, coinbase,
\* transaction validity
RuleHolds ==
    LET upd == apply_to_accumulator(CandTx.inputs, CandTx.outputs, ParentMsa)
    IN << CandHeader.height = parent.kernel.header.height + 1,
          CandHeader.prev_block_digest = ParentDigest,
          CandBody.block_mmr_accumulator
              = MmrAppend(parent.kernel.body.block_mmr_accumulator, ParentDigest),
          CandHeader.timestamp >= ParentTimestamp,
          CandHeader.difficulty
              = difficulty_control(parent, CandHeader.timestamp, tbi),
          CandHeader.timestamp < now + TwoHours,
          \A i \in 1..Len(CandTx.inputs) : can_remove(ParentMsa, CandTx.inputs[i]),
          PairwiseDistinctIndexSets,
          upd.ok /\ msa_hash(upd.msa) = msa_hash(CandBody.mutator_set_accumulator),
          CandTx.timestamp <= CandHeader.timestamp,
          CandTx.coinbase = <<>>
              \/ CandTx.coinbase[1]
                    <= get_mining_reward(CandHeader.height) + CandTx.fee,
          CandBody.transaction.valid >>

\* the rules the candidate violates
ViolatedRules == LET holds == RuleHolds IN {i \in 1..12 : ~holds[i]}

\* the position of the reported rule in the order of the checks
ReportedRule ==
    CASE verdict = "0.a" -> 1   [] verdict = "0.b" -> 2
      [] verdict = "0.c" -> 3   [] verdict = "0.d" -> 4
      [] verdict = "0.e" -> 5   [] verdict = "0.f" -> 6
      [] verdict = "1.b" -> 7   [] verdict = "1.c" -> 8
      [] verdict \in {"1.d.update", "1.d.hash"} -> 9
      [] verdict = "1.e" -> 10  [] verdict = "1.f" -> 11
      [] verdict = "1.g" -> 12  [] OTHER -> 0

\* C11: a candidate violating several rules is rejected on the first
\* violated rule in the fixed order height, prev digest, block MMR,
\* timestamp vs parent, difficulty, future limit, removability of inputs,
\* duplicate index sets, mutator set, transaction timestamp, coinbase,
\* transaction validity; a candidate violating none is accepted.
C11_FirstViolatedRuleReported ==
    Judged =>
        LET violated == ViolatedRules
        IN IF violated = {}
           THEN Accepted
           ELSE /\ ReportedRule \in violated
                /\ \A i \in violated : ReportedRule <= i

\* duplicate inputs on a candidate whose accumulator does not hold their
\* removal either: rejected for the duplicates, the earlier of the two
C11_Witness ==
    /\ verdict = "1.c"
    /\ {8, 9} \subseteq ViolatedRules
    /\ Cardinality(ViolatedRules) >= 2

-----------------------------------------------------------------------------
(* Validation and proof of work *)

\* nonces a miner may try on the candidate
OtherNonces == {<<1, 1, 1>>, <<2, 0, 4>>, <<4, 4, 4>>}

\* C12: the verdict of is_valid_extended does not depend on proof of work:
\* candidates differing only in the header nonce get the same verdict
\* against the same parent, now and target interval.
C12_VerdictIgnoresNonce ==
    Judged =>
        \A n \in OtherNonces :
            validation_outcome(set_header_nonce(cand, n), parent, now, tbi) = verdict

\* a candidate without proof of work is accepted, as is the same candidate
\* with a nonce that gives it proof of work
C12_Witness ==
    /\ Accepted
    /\ ~has_proof_of_work(cand, parent)
    /\ \E n \in OtherNonces : has_proof_of_work(set_header_nonce(cand, n), parent)

-----------------------------------------------------------------------------
(* Validation has no effect on the blocks *)

\* C13: a call of is_valid_extended leaves the kernel of the candidate, the
\* kernel of the parent (its mutator set accumulator included) and the
\* parent's chunks as they were: the update is applied to a clone.
C13_ValidationLeavesBlocksUnchanged ==
    [][(verdict = "none" /\ verdict' # "none") =>
           /\ cand'.kernel = cand.kernel
           /\ parent'.kernel = parent.kernel
           /\ chunks' = chunks]_vars

\* a judged candidate whose update applies and yields an accumulator other
\* than the parent's
C13_Witness ==
    /\ Judged
    /\ verdict \in {"valid", "1.d.hash"}
    /\ CandTx.inputs # <<>>
    /\ LET upd == apply_to_accumulator(CandTx.inputs, CandTx.outputs, ParentMsa)
       IN upd.ok /\ upd.msa # ParentMsa

-----------------------------------------------------------------------------
(* The pure functions of Block, each applied to arguments drawn by Init *)

MaxDifficulty == 26     \* previous-block difficulties of a proof-of-work call

\* a block that has the given header fields and is the genesis block in
\* everything else
BlockWith(height, difficulty, timestamp, nonce) ==
    [GenesisBlock EXCEPT !.kernel.header.height = height,
                          !.kernel.header.difficulty = difficulty,
                          !.kernel.header.timestamp = timestamp,
                          !.kernel.header.nonce = nonce]

PowDifficulties ==
    (0..MaxDifficulty) \cup {BFE_P ^ DIGEST_LENGTH - 1, BFE_P ^ DIGEST_LENGTH}

Nonces == {<<a, b, c>> : a \in 0..BFE_MAX, b \in 0..BFE_MAX, c \in 0..BFE_MAX}

ThresholdCalls ==
    {[op |-> "difficulty_to_digest_threshold", state |-> "called", difficulty |-> d] :
        d \in PowDifficulties}

ProofOfWorkCalls ==
    {[op |-> "has_proof_of_work", state |-> "called",
      self |-> BlockWith(1, own, LaunchDate, n),
      previous_block |-> BlockWith(0, d, LaunchDate, <<0, 0, 0>>)] :
        own \in {1, 3}, d \in PowDifficulties, n \in Nonces}

ControlDifficulties ==
    {MINIMUM_DIFFICULTY, MINIMUM_DIFFICULTY + 1, 50, 6000,
     DIFFICULTY_MODULUS - 6000, DIFFICULTY_MODULUS - 1}

\* difficulties a validated chain cannot hold, tried all the same
StrayDifficulties == 0..(MINIMUM_DIFFICULTY - 1)

OldTimestamps == {0, LaunchDate, 700000}

NewTimestamps ==
    {0, LaunchDate,
     LaunchDate + TARGET_BLOCK_INTERVAL - 150, LaunchDate + TARGET_BLOCK_INTERVAL - 50,
     LaunchDate + TARGET_BLOCK_INTERVAL,
     LaunchDate + TARGET_BLOCK_INTERVAL + 50, LaunchDate + TARGET_BLOCK_INTERVAL + 150,
     LaunchDate + 2 * TARGET_BLOCK_INTERVAL,
     I64_MAX, I64_MAX + 1, TIMESTAMP_P - 1}

TargetIntervals ==
    {<<>>, <<0>>, <<1000>>, <<TARGET_BLOCK_INTERVAL - 1000>>,
     <<I64_MAX + 1>>, <<U64_MODULUS - 1>>}

DifficultyControlCalls ==
    {[op |-> "difficulty_control", state |-> "called",
      old_block |-> BlockWith(h, d, ts, <<0, 0, 0>>),
      new_timestamp |-> nts,
      target_block_interval |-> t] :
        h \in {0, 1}, d \in ControlDifficulties \cup StrayDifficulties,
        ts \in OldTimestamps, nts \in NewTimestamps, t \in TargetIntervals}

\* blocks with equal and with different kernels, of every block type, each
\* before and after its first hash()
SampleBlocks ==
    LET g == GenesisBlock
        b1 == make_mock_block(g, <<>>, 3)
        kernels == {g, BlockNew(g.kernel.header, g.kernel.body, "Standard"),
                    b1, [b1 EXCEPT !.block_type = "StandardWithProof"],
                    set_header_nonce(b1, <<1, 0, 0>>)}
    IN kernels \cup {after_hash(b) : b \in kernels}

EqCalls ==
    {[op |-> "eq", state |-> "called", self |-> a, other |-> b] :
        a \in SampleBlocks, b \in SampleBlocks}

RoundTripCalls ==
    {[op |-> o, state |-> "called", block |-> b] :
        o \in {"from_transfer_block", "deserialize", "bfieldcodec_decode"},
        b \in SampleBlocks}

\* what Network::launch_date can return for the networks: the date is
\* chosen per network, and nothing in genesis_block asks the dates of two
\* networks to differ
LaunchDates == [Networks -> {LaunchDate, LaunchDate + 604800}]

GenesisCalls ==
    {[op |-> "genesis_block", state |-> "called", launch_date |-> f] :
        f \in LaunchDates}

InitPure ==
    /\ BlockInit
    /\ mset = NoMs
    /\ chain = NoChain
    /\ conc = NoConc
    /\ calc \in ThresholdCalls \cup ProofOfWorkCalls \cup DifficultyControlCalls
                 \cup EqCalls \cup RoundTripCalls \cup GenesisCalls

\* Block::difficulty_to_digest_threshold(difficulty)
CallThreshold ==
    /\ calc.op = "difficulty_to_digest_threshold"
    /\ calc.state = "called"
    /\ calc' = IF difficulty_to_digest_threshold_panics(calc.difficulty)
               THEN [calc EXCEPT !.state = "panicked"]
               ELSE [op |-> calc.op, state |-> "returned", difficulty |-> calc.difficulty,
                     out |-> difficulty_to_digest_threshold(calc.difficulty)]
    /\ UNCHANGED <<blockVars, validVars, mset, chain, conc>>

\* self.has_proof_of_work(previous_block)
CallProofOfWork ==
    /\ calc.op = "has_proof_of_work"
    /\ calc.state = "called"
    /\ calc' = IF difficulty_to_digest_threshold_panics(
                      calc.previous_block.kernel.header.difficulty)
               THEN [calc EXCEPT !.state = "panicked"]
               ELSE [op |-> calc.op, state |-> "returned", self |-> calc.self,
                     previous_block |-> calc.previous_block,
                     out |-> has_proof_of_work(calc.self, calc.previous_block)]
    /\ UNCHANGED <<blockVars, validVars, mset, chain, conc>>

\* Block::difficulty_control(old_block, new_timestamp, target_block_interval)
CallDifficultyControl ==
    /\ calc.op = "difficulty_control"
    /\ calc.state = "called"
    /\ LET faults == difficulty_control_faults(calc.old_block, calc.new_timestamp,
                                               calc.target_block_interval)
       IN calc' = IF faults # {}
                  THEN [op |-> calc.op, state |-> "faulted", old_block |-> calc.old_block,
                        new_timestamp |-> calc.new_timestamp,
                        target_block_interval |-> calc.target_block_interval,
                        faults |-> faults]
                  ELSE [op |-> calc.op, state |-> "returned", old_block |-> calc.old_block,
                        new_timestamp |-> calc.new_timestamp,
                        target_block_interval |-> calc.target_block_interval,
                        out |-> difficulty_control(calc.old_block, calc.new_timestamp,
                                                   calc.target_block_interval)]
    /\ UNCHANGED <<blockVars, validVars, mset, chain, conc>>

\* self == other; both blocks have their cells filled afterwards
CallEq ==
    /\ calc.op = "eq"
    /\ calc.state = "called"
    /\ calc' = [op |-> calc.op, state |-> "returned",
                self |-> calc.self, other |-> calc.other,
                self_after |-> after_hash(calc.self),
                other_after |-> after_hash(calc.other),
                out |-> block_eq(calc.self, calc.other)]
    /\ UNCHANGED <<blockVars, validVars, mset, chain, conc>>

\* Block::from(TransferBlock::from(block.clone()))
CallTransferRoundTrip ==
    /\ calc.op = "from_transfer_block"
    /\ calc.state = "called"
    /\ calc' = IF into_transfer_block_panics(block_clone(calc.block))
               THEN [calc EXCEPT !.state = "panicked"]
               ELSE [op |-> calc.op, state |-> "returned", block |-> calc.block,
                     out |-> from_transfer_block(
                                 into_transfer_block(block_clone(calc.block)))]
    /\ UNCHANGED <<blockVars, validVars, mset, chain, conc>>

\* bincode::deserialize(&bincode::serialize(&block))
CallSerdeRoundTrip ==
    /\ calc.op = "deserialize"
    /\ calc.state = "called"
    /\ calc' = [op |-> calc.op, state |-> "returned", block |-> calc.block,
                out |-> deserialize(serialize(calc.block))]
    /\ UNCHANGED <<blockVars, validVars, mset, chain, conc>>

\* Block::decode(&block.encode())
CallBFieldCodecRoundTrip ==
    /\ calc.op = "bfieldcodec_decode"
    /\ calc.state = "called"
    /\ calc' = [op |-> calc.op, state |-> "returned", block |-> calc.block,
                out |-> bfieldcodec_decode(bfieldcodec_encode(calc.block))]
    /\ UNCHANGED <<blockVars, validVars, mset, chain, conc>>

\* Block::genesis_block(network) for every network
CallGenesisBlock ==
    /\ calc.op = "genesis_block"
    /\ calc.state = "called"
    /\ calc' = [op |-> calc.op, state |-> "returned",
                launch_date |-> calc.launch_date,
                out |-> [network \in Networks |->
                            genesis_block(network, calc.launch_date)]]
    /\ UNCHANGED <<blockVars, validVars, mset, chain, conc>>

NextPure ==
    \/ CallThreshold
    \/ CallProofOfWork
    \/ CallDifficultyControl
    \/ CallEq
    \/ CallTransferRoundTrip
    \/ CallSerdeRoundTrip
    \/ CallBFieldCodecRoundTrip
    \/ CallGenesisBlock

SpecPure == InitPure /\ [][NextPure]_vars

-----------------------------------------------------------------------------
(* Proof of work *)

\* a digest as a number: its limbs in base P, the first the lowest
LimbsValue(limbs) ==
    SeqSum([i \in 1..Len(limbs) |-> limbs[i] * (BFE_P ^ (i - 1))])

\* the digest with every limb maximal, as a number
MaxDigestValue == BFE_P ^ DIGEST_LENGTH - 1

Returned(op) == calc.op = op /\ calc.state = "returned"

-----------------------------------------------------------------------------
(* Difficulty control *)

\* the arguments of the call in calc
OldHeader == calc.old_block.kernel.header
TargetOf(t) == IF t = <<>> THEN TARGET_BLOCK_INTERVAL ELSE t[1]
Elapsed == calc.new_timestamp - OldHeader.timestamp

\* -(elapsed - T) / 100, truncating toward zero
AdjOf(elapsed, T) ==
    IF elapsed - T >= 0 THEN -((elapsed - T) \div 100) ELSE (T - elapsed) \div 100

C17_DifficultyControlTotal ==
    calc.op = "difficulty_control" => calc.state # "faulted"

-----------------------------------------------------------------------------
(* A mutator set accumulator under adds and removes, with the membership   *)
(* proofs of its items kept up to date by their holders                    *)

MaxItems == 4       \* items added in a run

ItemIds == 0..5

\* the Bloom filter indices of the item k added at leaf_index
IndexSetOf(k, leaf_index) ==
    LET indices == get_swbf_indices(k, leaf_index)
    IN {indices[j] : j \in 1..Len(indices)}

\* No item's indices are all among the indices of the other items: the
\* Bloom filter of a run has no false positive (at the real WINDOW_SIZE
\* and NUM_TRIALS a false positive is as unlikely as a hash collision).
NoFalsePositive(ids) ==
    \A i \in 1..Len(ids) :
        ~(IndexSetOf(ids[i], i - 1)
            \subseteq UNION {IndexSetOf(ids[j], j - 1) : j \in (1..Len(ids)) \ {i}})

\* The archival mutator set: every AOCL leaf and every bit of the Bloom
\* filter, by absolute index, are kept; nothing is folded into peaks
\* empty_archival_ms()
EmptyArchival == [aocl |-> <<>>, swbf |-> {}]

\* ArchivalMutatorSet::add
archival_add(ams, addition_record) ==
    [ams EXCEPT !.aocl = Append(@, addition_record.canonical_commitment)]

\* ArchivalMutatorSet::remove
archival_remove(ams, rr) ==
    [ams EXCEPT !.swbf = @ \cup {rr.absolute_indices[j] :
                                    j \in 1..Len(rr.absolute_indices)}]

\* the number of chunks that lie below the active window of an archive
ArchivalEvicted(ams) ==
    IF ams.aocl = <<>> THEN 0 ELSE (Len(ams.aocl) - 1) \div CHUNK_SIZE

\* the peaks of the MMR over all the leafs: the roots of its perfect trees
ArchivalMmr(leafs) ==
    LET hs == PeakHeights(Len(leafs))
        off(i) == SeqSum([j \in 1..(i - 1) |-> Pow2(hs[j])])
    IN [leaf_count |-> Len(leafs),
        peaks |-> [i \in 1..Len(hs) |-> TreeRoot(leafs, off(i), hs[i])]]

\* ArchivalMutatorSet::get_commitment
archival_get_commitment(ams) ==
    LET n == ArchivalEvicted(ams)
        chunk(c) == {b - c * CHUNK_SIZE :
                        b \in {i \in ams.swbf : i \div CHUNK_SIZE = c}}
        chunk_digests == [c \in 1..n |-> chunk_digest(chunk(c - 1))]
        active == {b - n * CHUNK_SIZE : b \in {i \in ams.swbf : i >= n * CHUNK_SIZE}}
    IN hash_pair(bag_peaks(ArchivalMmr(ams.aocl)),
                 hash_pair(bag_peaks(ArchivalMmr(chunk_digests)),
                           hash_varlen(encode_active_window(active))))

\* MutatorSetAccumulator::default(), no item, no proof
EmptyMs ==
    [op |-> "ms", msa |-> EmptyMsa, archival |-> EmptyArchival,
     chs |-> <<>>, leafs |-> <<>>, ids |-> <<>>,
     removed |-> {}, proofs |-> <<>>, first_proofs |-> <<>>,
     last |-> [kind |-> "none"]]

InitMs ==
    /\ BlockInit
    /\ calc = NoCalc
    /\ mset = EmptyMs
    /\ chain = NoChain
    /\ conc = NoConc

Live(m) == (1..Len(m.ids)) \ m.removed

\* commit, prove, the update of every held proof, add
MsAdd ==
    /\ Len(mset.ids) < MaxItems
    /\ \E k \in ItemIds :
          /\ \A i \in 1..Len(mset.ids) : mset.ids[i] # k
          /\ NoFalsePositive(Append(mset.ids, k))
          /\ LET addition_record == AdditionRecordOf(k)
                 membership_proof == prove(k, mset.leafs)
                 msa1 == msa_add(mset.msa, addition_record)
                 chs1 == ChunksAfter(mset.chs, mset.msa, <<addition_record>>)
                 leafs1 == Append(mset.leafs, addition_record.canonical_commitment)
             IN mset' =
                  [mset EXCEPT
                     !.msa = msa1,
                     !.archival = archival_add(@, addition_record),
                     !.chs = chs1,
                     !.leafs = leafs1,
                     !.ids = Append(@, k),
                     !.proofs =
                        Append([i \in 1..Len(@) |->
                                   IF i \in mset.removed THEN @[i]
                                   ELSE update_from_addition(@[i], mset.ids[i],
                                                             leafs1, chs1)],
                               membership_proof),
                     !.first_proofs = Append(@, membership_proof),
                     !.last = [kind |-> "add", leaf |-> Len(mset.ids) + 1,
                               commitment |-> msa_hash(mset.msa),
                               verified |-> FALSE,
                               proofs |-> mset.proofs]]
    /\ UNCHANGED <<blockVars, validVars, calc, chain, conc>>

\* drop, the update of every other held proof, remove
MsRemove ==
    /\ \E i \in Live(mset) :
          LET removal_record == drop(mset.ids[i], mset.proofs[i])
          IN /\ ~msa_remove_fails(mset.msa, removal_record)
             /\ mset' =
                  [mset EXCEPT
                     !.msa = msa_remove(mset.msa, removal_record),
                     !.archival = archival_remove(@, removal_record),
                     !.removed = @ \cup {i},
                     !.proofs =
                        [j \in 1..Len(@) |->
                            IF j \in mset.removed \cup {i} THEN @[j]
                            ELSE update_from_remove(@[j], removal_record)],
                     !.last = [kind |-> "remove", leaf |-> i,
                               commitment |-> msa_hash(mset.msa),
                               verified |-> ms_verify(mset.msa, mset.ids[i],
                                                       mset.proofs[i]),
                               proofs |-> mset.proofs]]
    /\ UNCHANGED <<blockVars, validVars, calc, chain, conc>>

MaxBatch == 3       \* removal records in a batch

\* ArchivalMutatorSet::remove for every record of a batch, in order
RECURSIVE ArchivalRemoveAll(_, _)
ArchivalRemoveAll(ams, records) ==
    IF records = <<>> THEN ams
    ELSE ArchivalRemoveAll(archival_remove(ams, Head(records)), Tail(records))

\* the batches of a run: lists of leaf positions of live items, with repeats
Batches(m) ==
    UNION {[1..n -> Live(m)] : n \in 1..MaxBatch}

\* drop for every record of the batch, then batch_remove with the proofs
\* of the other live items preserved
MsBatchRemove ==
    /\ \E batch \in Batches(mset) :
          LET records == [r \in 1..Len(batch) |->
                             drop(mset.ids[batch[r]], mset.proofs[batch[r]])]
              gone == {batch[r] : r \in 1..Len(batch)}
          IN /\ ~batch_remove_fails(mset.msa, records)
             /\ mset' =
                  [mset EXCEPT
                     !.msa = batch_remove(mset.msa, records),
                     !.archival = ArchivalRemoveAll(@, records),
                     !.removed = @ \cup gone,
                     !.proofs =
                        [j \in 1..Len(@) |->
                            IF j \in mset.removed THEN @[j]
                            ELSE batch_update_from_remove(@[j], records)],
                     !.last = [kind |-> "batch", batch |-> batch,
                               records |-> records,
                               live |-> Live(mset),
                               msa |-> mset.msa,
                               proofs |-> mset.proofs]]
    /\ UNCHANGED <<blockVars, validVars, calc, chain, conc>>

NextMs ==
    \/ MsAdd
    \/ MsRemove
    \/ MsBatchRemove

SpecMs == InitMs /\ [][NextMs]_vars

-----------------------------------------------------------------------------
(* Membership proofs and the commitment *)

MsState == mset.op = "ms"

Verifies(i, proofs) == ms_verify(mset.msa, mset.ids[i], proofs[i])

C20_CommitmentChanges ==
    MsState =>
        /\ msa_hash(mset.msa)
              = hash_pair(bag_peaks(mset.msa.aocl),
                          hash_pair(bag_peaks(mset.msa.swbf_inactive),
                                    hash_varlen(encode_active_window(
                                                    mset.msa.swbf_active))))
        /\ mset.last.kind \in {"add", "remove"} =>
              msa_hash(mset.msa) # mset.last.commitment

\* a removal after the window has slid: it leaves both MMRs as they were
C20_Witness ==
    /\ MsState
    /\ mset.last.kind = "remove"
    /\ mset.msa.swbf_inactive.leaf_count > 0
    /\ Cardinality(mset.removed) >= 2

-----------------------------------------------------------------------------
(* Batch removal *)

\* the proof after update_from_remove for every record in order
RECURSIVE SequentialProof(_, _)
SequentialProof(mp, records) ==
    IF records = <<>> THEN mp
    ELSE SequentialProof(update_from_remove(mp, Head(records)), Tail(records))

\* the records of a list without the repeats of earlier ones
RECURSIVE WithoutDuplicates(_)
WithoutDuplicates(records) ==
    IF records = <<>> THEN <<>>
    ELSE LET front == WithoutDuplicates(SubSeq(records, 1, Len(records) - 1))
             last_record == records[Len(records)]
         IN IF \E r \in 1..Len(front) : front[r] = last_record
            THEN front ELSE Append(front, last_record)

-----------------------------------------------------------------------------
(* What add, remove and batch_remove leave alone *)

\* the chunks evicted after n additions: one at every addition whose AOCL
\* index is a positive multiple of CHUNK_SIZE
EvictedAfter(n) == IF n = 0 THEN 0 ELSE (n - 1) \div CHUNK_SIZE

-----------------------------------------------------------------------------
(* A chain of blocks and its block MMR *)

MaxChain == 4       \* blocks on top of the genesis block

ChainTip == chain.blocks[Len(chain.blocks)]

\* timestamps handed to make_mock_block for the next block of the chain
ChainTimestamps ==
    {<<>>, <<ChainTip.kernel.header.timestamp>>,
           <<ChainTip.kernel.header.timestamp + TARGET_BLOCK_INTERVAL - 500>>}

\* the block MMRs a block offered as the next one may carry
OfferedBlockMmrs(block) ==
    LET tip_mmr == ChainTip.kernel.body.block_mmr_accumulator
    IN {block.kernel.body.block_mmr_accumulator,
        tip_mmr,
        MmrAppend(tip_mmr, ZeroDigest),
        MmrAppend(tip_mmr, ChainTip.kernel.header.prev_block_digest),
        MmrAppend(MmrAppend(tip_mmr, block_hash(ChainTip)), block_hash(ChainTip))}

\* can_prove_block_ancestry: the chain starts at the genesis block
InitChain ==
    /\ BlockInit
    /\ calc = NoCalc
    /\ mset = NoMs
    /\ chain = [op |-> "chain", blocks |-> <<GenesisBlock>>]
    /\ conc = NoConc

\* a block is offered as the next one and joins the chain when it passes
\* rule 0.c against the tip
ChainExtend ==
    /\ chain.op = "chain"
    /\ Len(chain.blocks) <= MaxChain
    /\ \E ts \in ChainTimestamps :
          LET mock == make_mock_block(ChainTip, ts,
                          ChainTip.kernel.body.mutator_set_accumulator.aocl.leaf_count)
          IN \E m \in OfferedBlockMmrs(mock) :
                LET new_block ==
                        [mock EXCEPT !.kernel.body.block_mmr_accumulator = m]
                IN /\ ~block_mmr_check_fails(new_block, ChainTip)
                   /\ chain' =
                        [chain EXCEPT
                           !.blocks = Append([@ EXCEPT ![Len(@)] = after_hash(@)],
                                             new_block)]
    /\ UNCHANGED <<blockVars, validVars, calc, mset, conc>>

NextChain == ChainExtend

SpecChain == InitChain /\ [][NextChain]_vars

\* the digests of the blocks before the n-th of the chain, oldest first
AncestorDigests(n) == [k \in 1..(n - 1) |-> block_hash(chain.blocks[k])]

\* C24: in a chain in which every block passes rule 0.c against the one
\* before, the block MMR of the block at height n has n leaves, it is the
\* MMR over the digests of the blocks at heights 0..n-1 in order, and the
\* membership proof of every such digest at its height as leaf index
\* verifies against the peaks and the leaf count of that block MMR.
C24_BlockMmrHoldsAncestors ==
    chain.op = "chain" =>
        \A n \in 1..Len(chain.blocks) :
            LET mmra == chain.blocks[n].kernel.body.block_mmr_accumulator
                digests == AncestorDigests(n)
            IN /\ mmra.leaf_count = n - 1
               /\ mmra = MmrFromLeafs(digests)
               /\ \A k \in 1..(n - 1) :
                     MmrVerify(mmra, k - 1, digests[k], MmrProve(digests, k - 1))

\* a chain whose last block MMR has several peaks
C24_Witness ==
    /\ chain.op = "chain"
    /\ Len(chain.blocks) = 4
    /\ Len(chain.blocks[4].kernel.body.block_mmr_accumulator.peaks) = 2
    /\ MmrVerify(chain.blocks[4].kernel.body.block_mmr_accumulator, 2,
                 block_hash(chain.blocks[3]), MmrProve(AncestorDigests(4), 2))

-----------------------------------------------------------------------------
(* Equality and round trips of blocks *)

\* C25: a == b exactly when a.hash() == b.hash(), which for blocks whose
\* cached digest, if any, is current means exactly when the MAST hashes of
\* the kernels are equal: the answer is the same whether or not either cell
\* is filled and whatever the block types, and blocks with the same kernel
\* are equal.
C25_EqualityByDigest ==
    Returned("eq") =>
        LET a == calc.self
            b == calc.other
        IN /\ calc.out = (block_hash(calc.self_after) = block_hash(calc.other_after))
           /\ calc.out = (kernel_mast_hash(a.kernel) = kernel_mast_hash(b.kernel))
           /\ a.kernel = b.kernel => calc.out
           /\ \A a2 \in {unset_digest(a), after_hash(a)},
                 b2 \in {unset_digest(b), after_hash(b)},
                 ta \in {"Genesis", "Standard", "StandardWithProof"} :
                    block_eq([a2 EXCEPT !.block_type = ta], b2) = calc.out

\* blocks of different block types, one with its cell filled and one
\* without, that have the same kernel and compare equal
C25_Witness ==
    /\ Returned("eq")
    /\ calc.out
    /\ calc.self.block_type # calc.other.block_type
    /\ calc.self.digest # <<>>
    /\ calc.other.digest = <<>>

-----------------------------------------------------------------------------
(* Block::hash called from several threads *)
(* digest.get_or_init(|| kernel.mast_hash()): a caller that finds the cell  *)
(* initialized reads it; otherwise the callers go through the cell's Once,  *)
(* where the first runs the closure and stores its value and the others     *)
(* block until it has finished.  The store of the digest's elements is not  *)
(* atomic: between its first and its last element the slot holds a torn     *)
(* value.                                                                   *)

NumThreads == 3

Threads == 1..NumThreads

\* the slot while the digest d is being stored
TornDigest(d) == <<"torn", d>>

\* a caller that takes any non-empty slot for an initialized cell
is_initialized_slot_nonempty(c) == c.slot # <<>>

\* OnceLock::is_initialized: the Once has completed
is_initialized(c) == c.once = "complete"

\* a block no thread has touched yet, its cell empty or filled
HashCalls ==
    {[op |-> "hash",
      kernel |-> b.kernel,
      slot |-> b.digest,
      once |-> IF b.digest = <<>> THEN "incomplete" ELSE "complete",
      writes |-> Len(b.digest),
      pc |-> [t \in Threads |-> "start"],
      value |-> [t \in Threads |-> <<>>],
      route |-> [t \in Threads |-> "none"],
      out |-> [t \in Threads |-> <<>>]] : b \in SampleBlocks}

InitHash ==
    /\ BlockInit
    /\ calc = NoCalc
    /\ mset = NoMs
    /\ chain = NoChain
    /\ conc \in HashCalls

\* get_or_init, fast path: self.get()
HashGet(t) ==
    /\ conc.pc[t] = "start"
    /\ conc' = IF is_initialized(conc)
               THEN [conc EXCEPT !.pc[t] = "read", !.route[t] = "fast"]
               ELSE [conc EXCEPT !.pc[t] = "enter"]

\* Once::call_once_force: the first caller takes the initialization
HashEnter(t) ==
    /\ conc.pc[t] = "enter"
    /\ conc.once = "incomplete"
    /\ conc' = [conc EXCEPT !.once = "running", !.pc[t] = "compute",
                            !.route[t] = "init"]

\* Once::call_once_force: a caller that finds the Once taken blocks until
\* it has completed
HashWait(t) ==
    /\ conc.pc[t] = "enter"
    /\ conc.once = "complete"
    /\ conc' = [conc EXCEPT !.pc[t] = "read", !.route[t] = "waited"]

\* the closure: self.kernel.mast_hash()
HashCompute(t) ==
    /\ conc.pc[t] = "compute"
    /\ conc' = [conc EXCEPT !.value[t] = <<kernel_mast_hash(conc.kernel)>>,
                            !.pc[t] = "store"]

\* the store into the slot begins
HashStoreBegin(t) ==
    /\ conc.pc[t] = "store"
    /\ conc' = [conc EXCEPT !.slot = <<TornDigest(conc.value[t][1])>>,
                            !.writes = @ + 1,
                            !.pc[t] = "storing"]

\* the store into the slot ends
HashStoreEnd(t) ==
    /\ conc.pc[t] = "storing"
    /\ conc' = [conc EXCEPT !.slot = conc.value[t], !.pc[t] = "publish"]

\* the Once completes and releases the callers that wait
HashPublish(t) ==
    /\ conc.pc[t] = "publish"
    /\ conc' = [conc EXCEPT !.once = "complete", !.pc[t] = "read"]

\* *self.digest.get_unchecked(): the copy of the digest the caller returns
HashRead(t) ==
    /\ conc.pc[t] = "read"
    /\ conc' = [conc EXCEPT !.out[t] = conc.slot, !.pc[t] = "done"]

HashStep(t) ==
    \/ HashGet(t)
    \/ HashEnter(t)
    \/ HashWait(t)
    \/ HashCompute(t)
    \/ HashStoreBegin(t)
    \/ HashStoreEnd(t)
    \/ HashPublish(t)
    \/ HashRead(t)

NextHash ==
    /\ conc.op = "hash"
    /\ \E t \in Threads : HashStep(t)
    /\ UNCHANGED <<blockVars, validVars, calc, mset, chain>>

SpecHash == InitHash /\ [][NextHash]_vars

\* C26: however the calls of hash() of several threads on one unmodified
\* block interleave, the digest slot is stored into at most once in the
\* block's life, and what a caller returns is the MAST hash of the kernel:
\* never a torn value, never a value another caller does not return.
C26_ConcurrentHashWritesOnce ==
    conc.op = "hash" =>
        /\ conc.writes <= 1
        /\ \A t \in Threads :
              conc.pc[t] = "done" =>
                 /\ conc.out[t] = <<kernel_mast_hash(conc.kernel)>>
                 /\ \A u \in Threads :
                       conc.pc[u] = "done" => conc.out[u] = conc.out[t]

\* all callers have returned: one ran the closure, one waited for it, one
\* found the cell initialized
C26_Witness ==
    /\ conc.op = "hash"
    /\ \A t \in Threads : conc.pc[t] = "done"
    /\ \E t, u, v \in Threads :
          /\ conc.route[t] = "init"
          /\ conc.route[u] = "waited"
          /\ conc.route[v] = "fast"

-----------------------------------------------------------------------------
(* Merging a transaction into a valid block *)

\* the removal records accumulate_transaction has added to the candidate
MergedInputs ==
    SubSeq(cand'.kernel.body.transaction.kernel.inputs,
           Len(cand.kernel.body.transaction.kernel.inputs) + 1,
           Len(cand'.kernel.body.transaction.kernel.inputs))

\* the step is cand.accumulate_transaction(tx, &parent's accumulator) with a
\* valid tx whose inputs can each be removed from the parent's mutator set
\* and spend nothing twice, on a candidate that was valid at some time of
\* validation
MergeIntoValid ==
    /\ merged' = merged + 1
    /\ \E n \in NowSet : is_valid(cand, parent, n)
    /\ transaction_is_valid(cand'.kernel.body.transaction)
    /\ \A i \in 1..Len(MergedInputs) : can_remove(ParentMsa, MergedInputs[i])
    /\ ~duplicates_check_fails(cand')

\* C28: a block valid against its parent is still valid against it after
\* accumulate_transaction has merged a valid transaction whose inputs are
\* removable from the parent's mutator set (and, read in the claim's
\* favour, spend no output twice), at every time of validation later than
\* the merged block's timestamp minus two hours.
C28_MergeKeepsBlockValid ==
    [][MergeIntoValid =>
          \A n \in NowSet :
              cand'.kernel.header.timestamp < n + TwoHours
                  => is_valid(cand', parent, n)]_vars

-----------------------------------------------------------------------------
(* The genesis block *)

\* the addition record of the i-th premine receiver on a network
PremineRecord(network, launch_date, i) ==
    commit(utxo_hash(premine_utxos(network, launch_date)[i]), ZeroDigest,
           ReceiverDigest(i - 1))

\* C29: genesis_block(network) has height 0, the zero prev_block_digest,
\* the zero nonce, zero cumulative proof of work and difficulty
\* MINIMUM_DIFFICULTY; its transaction has no inputs, fee zero, the sum of
\* the premine amounts as coinbase, the premine addition records in
\* distribution order as outputs and the hash of the empty accumulator as
\* mutator_set_hash; its mutator set accumulator is the default one with
\* those records added in that order.
C29_GenesisBlockFields ==
    Returned("genesis_block") =>
        \A network \in Networks :
            LET g == calc.out[network]
                header == g.kernel.header
                body == g.kernel.body
                tx == body.transaction.kernel
                r(i) == PremineRecord(network, calc.launch_date, i)
            IN /\ header.height = 0
               /\ header.prev_block_digest = ZeroDigest
               /\ header.nonce = <<0, 0, 0>>
               /\ header.proof_of_work_line = 0
               /\ header.proof_of_work_family = 0
               /\ header.difficulty = MINIMUM_DIFFICULTY
               /\ tx.inputs = <<>>
               /\ tx.fee = 0
               /\ tx.coinbase = <<(20000 + 1337 + 42) * CoinUnit>>
               /\ tx.outputs = <<r(1), r(2), r(3)>>
               /\ tx.mutator_set_hash = msa_hash(EmptyMsa)
               /\ body.mutator_set_accumulator
                     = msa_add(msa_add(msa_add(EmptyMsa, r(1)), r(2)), r(3))

\* the genesis blocks of networks launched on different dates
C29_Witness ==
    /\ Returned("genesis_block")
    /\ calc.launch_date["Alpha"] # calc.launch_date["RegTest"]
    /\ calc.out["Alpha"].kernel.body.transaction.kernel.outputs
          # calc.out["RegTest"].kernel.body.transaction.kernel.outputs
    /\ calc.out["RegTest"].kernel.body.mutator_set_accumulator.aocl.leaf_count = 3

\* C30: the genesis blocks of two different networks have different
\* mutator set accumulator hashes.
C30_GenesisMsaHashesDiffer ==
    Returned("genesis_block") =>
        \A n1, n2 \in Networks :
            n1 # n2 =>
                msa_hash(calc.out[n1].kernel.body.mutator_set_accumulator)
                    # msa_hash(calc.out[n2].kernel.body.mutator_set_accumulator)

-----------------------------------------------------------------------------
(* The mining reward, its loop run one iteration at a time *)

MaxRewardHeight == 21

\* get_mining_reward(block_height) on entry: reward = NeptuneCoins::new(100),
\* generation = block_height.get_generation(), the range 0..generation not begun
RewardCalls ==
    {[op |-> "get_mining_reward", state |-> "loop", block_height |-> h,
      generation |-> get_generation(h), i |-> 0, reward |-> NeptuneCoins(100)] :
        h \in 0..MaxRewardHeight}

InitReward ==
    /\ BlockInit
    /\ mset = NoMs
    /\ chain = NoChain
    /\ conc = NoConc
    /\ calc \in RewardCalls

\* Amount::div_two
div_two(amount) == amount \div 2

\* for _ in 0..generation { reward.div_two() }
RewardDivTwo ==
    /\ calc.op = "get_mining_reward"
    /\ calc.state = "loop"
    /\ calc.i < calc.generation
    /\ calc' = [calc EXCEPT !.i = @ + 1, !.reward = div_two(@)]
    /\ UNCHANGED <<blockVars, validVars, mset, chain, conc>>

\* the range is exhausted: the function returns reward
RewardReturn ==
    /\ calc.op = "get_mining_reward"
    /\ calc.state = "loop"
    /\ calc.i >= calc.generation
    /\ calc' = [calc EXCEPT !.state = "returned"]
    /\ UNCHANGED <<blockVars, validVars, mset, chain, conc>>

NextReward ==
    \/ RewardDivTwo
    \/ RewardReturn

\* the thread that runs the call is never starved
SpecReward == InitReward /\ [][NextReward]_vars /\ WF_vars(NextReward)

RewardReturned == calc.op = "get_mining_reward" /\ calc.state = "returned"

\* what a returned call must satisfy
RewardFacts ==
    RewardReturned =>
        /\ calc.reward = get_mining_reward(calc.block_height)
        /\ calc.reward = NeptuneCoins(100) \div Pow2(calc.generation)
        /\ calc.generation = 0 => calc.reward = NeptuneCoins(100)
        /\ \A lower \in 0..calc.block_height :
              get_mining_reward(lower) >= calc.reward

\* C31: get_mining_reward(height) is 100 coins halved, by integer division of
\* the coin representation, once for each completed generation of the height:
\* it is 100 coins throughout generation 0, it never grows with the height,
\* and the loop ends for every height.
C31_MiningRewardHalves == []RewardFacts /\ <>RewardReturned

\* a call returned that halved an odd amount on its way (25 -> 12 units)
C31_Witness ==
    /\ RewardReturned
    /\ calc.generation >= 5
    /\ calc.reward > 0
    /\ calc.reward * Pow2(calc.generation) < NeptuneCoins(100)

-----------------------------------------------------------------------------
(* The size of the premine *)

\* test_premine_size: NeptuneCoins::new(831600), 1.98% of 42000000
premine_max_size == NeptuneCoins(831600)

\* test_premine_size: the amounts of premine_distribution(network), summed
total_premine(network) == SeqSum(premine_distribution(network))

\* the amounts locked in the premine UTXOs of a network, summed
PremineUtxoTotal(network, launch_date) ==
    LET utxos == premine_utxos(network, launch_date)
    IN SeqSum([i \in 1..Len(utxos) |-> utxos[i].amount])

\* C32: for every network the amounts of premine_distribution(network) sum
\* to at most 831600 coins, and that sum is exactly the coinbase of the
\* genesis block's transaction.
C32_PremineWithinCap ==
    Returned("genesis_block") =>
        \A network \in Networks :
            LET coinbase == calc.out[network].kernel.body.transaction.kernel.coinbase
            IN /\ total_premine(network) <= premine_max_size
               /\ coinbase = <<total_premine(network)>>
               /\ coinbase = <<PremineUtxoTotal(network, calc.launch_date)>>

\* genesis blocks were built, the premine is not empty and lies strictly
\* below the cap
C32_Witness ==
    /\ Returned("genesis_block")
    /\ \A network \in Networks :
          /\ Len(premine_distribution(network)) = 3
          /\ calc.out[network].kernel.body.transaction.kernel.coinbase
                = <<NeptuneCoins(20000) + NeptuneCoins(1337) + NeptuneCoins(42)>>
          /\ total_premine(network) > 0
          /\ total_premine(network) < premine_max_size

-----------------------------------------------------------------------------
(* The TASM snippet TransactionKernelMastHash *)

\* the kernels the snippet is run on: every field takes two or three values
TasmKernels ==
    {[inputs |-> inputs, outputs |-> outputs, public_announcements |-> announcements,
      fee |-> fee, coinbase |-> coinbase, timestamp |-> timestamp,
      mutator_set_hash |-> mutator_set_hash] :
        inputs \in {<<>>, <<RemovalRecordOf(2, GenesisChunks)>>},
        outputs \in {<<>>, <<AdditionRecordOf(3)>>, <<AdditionRecordOf(3), AdditionRecordOf(4)>>},
        announcements \in {<<>>, <<7>>},
        fee \in {NeptuneCoins(0), NeptuneCoins(1)},
        coinbase \in {<<>>, <<NeptuneCoins(5)>>},
        timestamp \in {LaunchDate, LaunchDate + 1},
        mutator_set_hash \in {ZeroDigest, msa_hash(GenesisMsa)}}

\* tx_kernel.encode(): every field's encoding behind its length, in the
\* order of declaration
encode_transaction_kernel(k) ==
    LET fields == encode_transaction_kernel_fields(k)
    IN Flatten([i \in 1..Len(fields) |-> <<bfe(Len(fields[i]))>> \o fields[i]])

\* input_state_with_kernel_in_memory: the encoded kernel from address 1 on
kernel_address == 1

\* GetFieldWithSize: the address of the size indicator of field number
\* field, found by stepping over the fields before it
RECURSIVE FieldSizeAddress(_, _, _)
FieldSizeAddress(memory, address, field) ==
    IF field = 0 THEN address
    ELSE FieldSizeAddress(memory, address + 1 + memory[address][2], field - 1)

\* GetFieldWithSize: _ *kernel field -> _ *field field_size
get_field_with_size(memory, address, field) ==
    LET size_address == FieldSizeAddress(memory, address, field)
    IN <<size_address + 1, memory[size_address][2]>>

\* HashVarlen: _ *addr length -> _ digest
tasm_hash_varlen(memory, field_and_size) ==
    hash_varlen(SubSeq(memory, field_and_size[1],
                       field_and_size[1] + field_and_size[2] - 1))

\* the instruction hash with its operands taken in the other order
tasm_hash_right_first(stack) ==
    <<hash_pair(stack[2], stack[1])>> \o SubSeq(stack, 3, Len(stack))

\* the instruction hash followed by five pops: the digest on top of the
\* stack is the left operand, the one below it the right operand
tasm_hash(stack) ==
    <<hash_pair(stack[1], stack[2])>> \o SubSeq(stack, 3, Len(stack))

\* no digest written to the list element yet
Unset == <<"unset">>

TasmCalls ==
    {[op |-> "tasm_transaction_kernel_mast_hash", state |-> "called", kernel |-> k,
      memory |-> encode_transaction_kernel(k), pc |-> 0,
      list |-> [i \in 0..15 |-> Unset]] : k \in TasmKernels}

InitTasm ==
    /\ BlockInit
    /\ mset = NoMs
    /\ chain = NoChain
    /\ conc = NoConc
    /\ calc \in TasmCalls

TasmRunning == calc.op = "tasm_transaction_kernel_mast_hash" /\ calc.state = "called"

\* allocate new list of 16 digests
TasmNewList ==
    /\ TasmRunning
    /\ calc.pc = 0
    /\ calc' = [calc EXCEPT !.pc = 1]
    /\ UNCHANGED <<blockVars, validVars, mset, chain, conc>>

\* populate list[8 + field] with the digest of field number field
TasmHashField ==
    /\ TasmRunning
    /\ calc.pc \in 1..7
    /\ LET field == calc.pc - 1
           digest == tasm_hash_varlen(calc.memory,
                        get_field_with_size(calc.memory, kernel_address, field))
       IN calc' = [calc EXCEPT !.list[8 + field] = digest, !.pc = @ + 1]
    /\ UNCHANGED <<blockVars, validVars, mset, chain, conc>>

\* populate list[15] with default digest: push 0 push 0 push 0 push 0 push 0
TasmPadding ==
    /\ TasmRunning
    /\ calc.pc = 8
    /\ calc' = [calc EXCEPT !.list[15] = ZeroDigest, !.pc = 9]
    /\ UNCHANGED <<blockVars, validVars, mset, chain, conc>>

\* hash 2n || 2n+1 and store in n, for n = 7 down to 1: element 2n+1 is
\* read first, element 2n second and so lies on top
TasmHashNodes ==
    /\ TasmRunning
    /\ calc.pc \in 9..15
    /\ LET node == 16 - calc.pc
           stack == <<calc.list[2 * node], calc.list[2 * node + 1]>>
       IN calc' = [calc EXCEPT !.list[node] = tasm_hash(stack)[1], !.pc = @ + 1]
    /\ UNCHANGED <<blockVars, validVars, mset, chain, conc>>

\* return list[1]
TasmReturn ==
    /\ TasmRunning
    /\ calc.pc = 16
    /\ calc' = [op |-> calc.op, state |-> "returned", kernel |-> calc.kernel,
                list |-> calc.list, out |-> calc.list[1]]
    /\ UNCHANGED <<blockVars, validVars, mset, chain, conc>>

NextTasm ==
    \/ TasmNewList
    \/ TasmHashField
    \/ TasmPadding
    \/ TasmHashNodes
    \/ TasmReturn

SpecTasm == InitTasm /\ [][NextTasm]_vars

\* the 8 leaves the claim names, for a kernel
KernelLeaves(k) ==
    << hash_varlen(encode_vec(Map(encode_removal_record, k.inputs))),
       hash_varlen(encode_vec(Map(encode_addition_record, k.outputs))),
       hash_varlen(encode_vec(Map(encode_int, k.public_announcements))),
       hash_varlen(encode_int(k.fee)),
       hash_varlen(encode_option(k.coinbase)),
       hash_varlen(encode_int(k.timestamp)),
       hash_varlen(encode_digest(k.mutator_set_hash)),
       ZeroDigest >>

\* the root of the Merkle tree over 8 leaves, written out
RootOfEight(l) ==
    hash_pair(hash_pair(hash_pair(l[1], l[2]), hash_pair(l[3], l[4])),
              hash_pair(hash_pair(l[5], l[6]), hash_pair(l[7], l[8])))

\* C33: the transaction kernel MAST hash is the Merkle root over exactly 8
\* leaves, hash_varlen of the encodings of inputs, outputs,
\* public_announcements, fee, coinbase, timestamp and mutator_set_hash in
\* that order and then one zero digest; the TASM snippet, with the leaves in
\* nodes 8..15 and node i = hash(node 2i, node 2i+1), returns in node 1 the
\* same digest as TransactionKernel::mast_hash, for every kernel.
C33_TasmAgreesWithMastHash ==
    Returned("tasm_transaction_kernel_mast_hash") =>
        LET k == calc.kernel
            leaves == PadLeaves(Map(hash_varlen, encode_transaction_kernel_fields(k)))
        IN /\ Len(leaves) = 8
           /\ leaves = KernelLeaves(k)
           /\ transaction_kernel_mast_hash(k) = RootOfEight(KernelLeaves(k))
           /\ [i \in 1..8 |-> calc.list[7 + i]] = KernelLeaves(k)
           /\ \A node \in 1..7 :
                 calc.list[node] = hash_pair(calc.list[2 * node], calc.list[2 * node + 1])
           /\ calc.out = transaction_kernel_mast_hash(k)

\* the snippet returned for a kernel with an input, two outputs, an
\* announcement and a coinbase
C33_Witness ==
    /\ Returned("tasm_transaction_kernel_mast_hash")
    /\ Len(calc.kernel.inputs) = 1
    /\ Len(calc.kernel.outputs) = 2
    /\ Len(calc.kernel.public_announcements) = 1
    /\ calc.kernel.coinbase # <<>>
    /\ calc.out # ZeroDigest
    /\ calc.list[15] = ZeroDigest

-----------------------------------------------------------------------------
(* A clone and its original *)

Other(w) == CHOOSE v \in Names : v # w

\* block w is an unmodified clone of the other block
IsCloneOfOther(w) == blocks[w] = block_clone(blocks[Other(w)])

\* C34: a clone of a block is independent of the original: taking the clone
\* and then modifying it (set_header_nonce) changes the clone's hash() and
\* leaves the original's kernel and hash() exactly as they were, also when
\* the original's digest was cached before the clone was taken.
C34_CloneIsIndependent ==
    [][\A w \in Names :
          LET original == Other(w)
          IN /\ OpClone(w) =>
                   /\ blocks'[original] = blocks[original]
                   /\ blocks'[w].kernel = blocks[original].kernel
                   /\ block_hash(blocks'[w]) = block_hash(blocks[original])
             /\ (OpSetHeaderNonce(w) /\ IsCloneOfOther(w)) =>
                   /\ blocks'[original].kernel = blocks[original].kernel
                   /\ blocks'[original].digest = blocks[original].digest
                   /\ block_hash(blocks'[original]) = block_hash(blocks[original])
                   /\ (blocks'[w].kernel.header.nonce # blocks[w].kernel.header.nonce
                          => /\ block_hash(blocks'[w]) # block_hash(blocks[w])
                             /\ block_hash(blocks'[w]) # block_hash(blocks'[original]))
             /\ (OpHash(w) /\ blocks[w].kernel # blocks[original].kernel) =>
                   /\ blocks'[original] = blocks[original]
                   /\ ret'[2] # block_hash(blocks'[original])
      ]_vars

\* the original's digest is cached, the other block has the original's
\* kernel but for the nonce, and its own cell has just been reset
C34_Witness ==
    \E w \in Names :
        LET original == Other(w)
        IN /\ blocks[original].digest = <<kernel_mast_hash(blocks[original].kernel)>>
           /\ blocks[original].kernel.header.height = 1
           /\ blocks[w].block_type = blocks[original].block_type
           /\ blocks[w].kernel.header.nonce # blocks[original].kernel.header.nonce
           /\ blocks[w].kernel =
                 [blocks[original].kernel EXCEPT
                     !.header.nonce = blocks[w].kernel.header.nonce]
           /\ blocks[w].digest = <<>>
           /\ block_hash(blocks[w]) # block_hash(blocks[original])

-----------------------------------------------------------------------------
(* What accumulate_transaction changes and what it leaves alone *)

\* the header fields accumulate_transaction copies
CopiedHeaderFields(h) ==
    <<h.version, h.height, h.prev_block_digest, h.nonce, h.max_block_size,
      h.proof_of_work_line, h.proof_of_work_family, h.difficulty>>

\* the body fields accumulate_transaction copies
CopiedBodyFields(b) ==
    <<b.lock_free_mmr_accumulator, b.block_mmr_accumulator, b.uncle_blocks>>

\* C35: accumulate_transaction leaves the header's version, height,
\* prev_block_digest, nonce, max_block_size, proof-of-work fields and
\* difficulty and the body's lock_free_mmr_accumulator, block_mmr_accumulator
\* and uncle_blocks unchanged; it sets the header timestamp to the maximum of
\* the old header timestamp, the old transaction's timestamp and the merged-in
\* transaction's timestamp, without recomputing the difficulty; it sets the
\* body's mutator set accumulator to the result of applying the merged
\* transaction's inputs and outputs to the supplied previous accumulator; and
\* it clears the digest cache.
C35_AccumulateTransactionFrame ==
    [][\A w \in Names :
          OpAccumulateTransaction(w) =>
              LET old == blocks[w].kernel
                  new == blocks'[w].kernel
                  previous_msa == PreviousMsaOf(blocks[w])
              IN \E tx \in BlockOpTransactions(blocks[w]) :
                    /\ CopiedHeaderFields(new.header) = CopiedHeaderFields(old.header)
                    /\ CopiedBodyFields(new.body) = CopiedBodyFields(old.body)
                    /\ new.header.timestamp >= old.header.timestamp
                    /\ new.header.timestamp >= old.body.transaction.kernel.timestamp
                    /\ new.header.timestamp >= tx.kernel.timestamp
                    /\ new.header.timestamp \in
                          {old.header.timestamp, old.body.transaction.kernel.timestamp,
                           tx.kernel.timestamp}
                    /\ new.body.transaction.kernel.inputs
                          = old.body.transaction.kernel.inputs \o tx.kernel.inputs
                    /\ new.body.transaction.kernel.outputs
                          = old.body.transaction.kernel.outputs \o tx.kernel.outputs
                    /\ new.body.mutator_set_accumulator
                          = RemoveAll(AddAll(previous_msa,
                                             new.body.transaction.kernel.outputs),
                                      new.body.transaction.kernel.inputs).msa
                    /\ blocks'[w].digest = <<>>
                    /\ blocks'[w].block_type = blocks[w].block_type
                    /\ blocks'[Other(w)] = blocks[Other(w)]
      ]_vars

\* a block at height 1 into which a transaction with an input and a later
\* timestamp has been merged: the header carries the transaction's timestamp
\* and the difficulty make_mock_block gave it, the cell is empty
C35_Witness ==
    \E w \in Names :
        LET k == blocks[w].kernel
            mock == make_mock_block(GenesisBlock, <<>>, GenesisMsa.aocl.leaf_count).kernel
        IN /\ k.header.height = 1
           /\ Len(k.body.transaction.kernel.inputs) = 1
           /\ Len(k.body.transaction.kernel.outputs)
                 = Len(mock.body.transaction.kernel.outputs) + 1
           /\ k.header.timestamp > mock.header.timestamp
           /\ k.header.difficulty = mock.header.difficulty
           /\ k.body.mutator_set_accumulator # mock.body.mutator_set_accumulator
           /\ blocks[w].digest = <<>>
           /\ blocks[Other(w)].digest # <<>>

-----------------------------------------------------------------------------
(* set_block *)

\* C36: after a.set_block(b), a's header and body equal b's and
\* a.hash() == b.hash(): b's cached digest is carried over if present,
\* otherwise the digest is computed on demand from the new kernel; a's
\* block_type is left unchanged.
C36_SetBlockCopiesKernelAndDigest ==
    [][\A w \in Names :
          OpSetBlock(w) =>
              LET a == blocks'[w]
                  b == blocks[Other(w)]
              IN /\ a.kernel.header = b.kernel.header
                 /\ a.kernel.body = b.kernel.body
                 /\ block_hash(a) = block_hash(b)
                 /\ block_hash(a) = kernel_mast_hash(a.kernel)
                 /\ b.digest # <<>> => a.digest = b.digest
                 /\ b.digest = <<>> =>
                       /\ a.digest = <<>>
                       /\ after_hash(a).digest = <<kernel_mast_hash(b.kernel)>>
                 /\ a.block_type = blocks[w].block_type
                 /\ blocks'[Other(w)] = b
      ]_vars

\* a Genesis-type block holds the kernel and the cached digest of a
\* Standard-type block at height 1 with another nonce
C36_Witness ==
    \E w \in Names :
        /\ blocks[w].block_type = "Genesis"
        /\ blocks[Other(w)].block_type = "Standard"
        /\ blocks[w].kernel = blocks[Other(w)].kernel
        /\ blocks[w].kernel.header.height = 1
        /\ blocks[w].kernel.header.nonce = <<1, 1, 1>>
        /\ blocks[w].digest = <<kernel_mast_hash(blocks[Other(w)].kernel)>>
        /\ blocks[Other(w)].digest = blocks[w].digest

-----------------------------------------------------------------------------
(* The accumulator against the archival mutator set *)

-----------------------------------------------------------------------------
(* Proofs that an addition or a removal leaves valid, and proofs it does not *)

\* the proofs held before the step, of the items that are live after it
\* and were there before it
OtherLive == Live(mset') \cap (1..Len(mset.ids))

\* update_from_addition / update_from_remove report the proof as changed
ReportedChanged(i) == mset'.proofs[i] # mset.proofs[i]

\* accumulator.verify(item, proof) after the step
VerifiesAfter(i, proof) == ms_verify(mset'.msa, mset.ids[i], proof)

-----------------------------------------------------------------------------
(* RustyLevelDB: get, put and delete over the byte-keyed store *)

MaxDbOps == 4       \* calls made on one database

\* Key and Value are u16 here; the keys differ in the low byte, in the high
\* byte, or in both
DbKeys == {0, 1, 256}

DbValues == {1, 256}

\* bincode::serialize of a u16: its two bytes, low byte first
bincode_serialize(n) == <<n % 256, n \div 256>>

\* bincode::deserialize of the two bytes of a u16
bincode_deserialize(bytes) == bytes[1] + 256 * bytes[2]

\* rusty_leveldb DB::get: the bytes stored under the key bytes, if any
database_get(database, key_bytes) ==
    IF key_bytes \in DOMAIN database THEN <<database[key_bytes]>> ELSE <<>>

\* rusty_leveldb DB::put
database_put(database, key_bytes, value_bytes) ==
    [x \in DOMAIN database \cup {key_bytes} |->
        IF x = key_bytes THEN value_bytes ELSE database[x]]

\* rusty_leveldb DB::delete: also Ok when nothing is stored under the key
database_delete(database, key_bytes) ==
    [x \in DOMAIN database \ {key_bytes} |-> database[x]]

\* Option::map(|bytes| bincode::deserialize(&bytes).unwrap())
deserialize_option(value_bytes) ==
    IF value_bytes = <<>> THEN <<>> ELSE <<bincode_deserialize(value_bytes[1])>>

\* RustyLevelDB::get
get(database, key) ==
    LET key_bytes == bincode_serialize(key)
        value_bytes == database_get(database, key_bytes)
    IN deserialize_option(value_bytes)

\* RustyLevelDB::put
put(database, key, value) ==
    LET key_bytes == bincode_serialize(key)
        value_bytes == bincode_serialize(value)
    IN database_put(database, key_bytes, value_bytes)

\* delete that reads the record and leaves it in place
delete_keeping_record(database, key) ==
    [value_object |-> get(database, key), database |-> database]

\* RustyLevelDB::delete: the value read before the deletion, and the
\* database after it
delete(database, key) ==
    LET key_bytes == bincode_serialize(key)
        value_bytes == database_get(database, key_bytes)
        value_object == deserialize_option(value_bytes)
    IN [value_object |-> value_object,
        database |-> database_delete(database, key_bytes)]

\* RustyLevelDB::new on a fresh path: nothing stored, no call made yet
InitDb ==
    /\ BlockInit
    /\ mset = NoMs
    /\ chain = NoChain
    /\ conc = NoConc
    /\ calc = [op |-> "rusty_level_db", database |-> <<>>, calls |-> <<>>,
               out |-> <<>>]

DbOpen == calc.op = "rusty_level_db" /\ Len(calc.calls) < MaxDbOps

\* db.get(key)
DbGet ==
    /\ DbOpen
    /\ \E key \in DbKeys :
          calc' = [calc EXCEPT
                      !.calls = Append(@, [fn |-> "get", key |-> key]),
                      !.out = get(calc.database, key)]
    /\ UNCHANGED <<blockVars, validVars, mset, chain, conc>>

\* db.put(key, value)
DbPut ==
    /\ DbOpen
    /\ \E key \in DbKeys, value \in DbValues :
          calc' = [calc EXCEPT
                      !.calls = Append(@, [fn |-> "put", key |-> key,
                                           value |-> value]),
                      !.database = put(calc.database, key, value),
                      !.out = <<>>]
    /\ UNCHANGED <<blockVars, validVars, mset, chain, conc>>

\* db.delete(key)
DbDelete ==
    /\ DbOpen
    /\ \E key \in DbKeys :
          calc' = [calc EXCEPT
                      !.calls = Append(@, [fn |-> "delete", key |-> key]),
                      !.database = delete(calc.database, key).database,
                      !.out = delete(calc.database, key).value_object]
    /\ UNCHANGED <<blockVars, validVars, mset, chain, conc>>

NextDb ==
    \/ DbGet
    \/ DbPut
    \/ DbDelete

SpecDb == InitDb /\ [][NextDb]_vars

\* what the calls made so far leave under a key: the value of the last put
\* of the key if no delete of the key came after it, nothing otherwise
Stored(calls, key) ==
    LET writes == {i \in 1..Len(calls) :
                      calls[i].key = key /\ calls[i].fn \in {"put", "delete"}}
        last == CHOOSE i \in writes : \A j \in writes : j <= i
    IN IF writes = {} THEN <<>>
       ELSE IF calls[last].fn = "put" THEN <<calls[last].value>>
       ELSE <<>>

\* the calls before the last one
EarlierCalls == SubSeq(calc.calls, 1, Len(calc.calls) - 1)

LastCall == calc.calls[Len(calc.calls)]

\* C39: over any sequence of put, get and delete, get(k) returns the value of
\* the most recent put(k, v) not followed by delete(k), and None otherwise;
\* delete(k) returns what get(k) would have returned just before it, and
\* get(k) returns None afterwards; no call on k changes what get returns for
\* another key.
C39_GetPutDelete ==
    calc.op = "rusty_level_db" =>
        /\ \A key \in DbKeys : get(calc.database, key) = Stored(calc.calls, key)
        /\ calc.calls # <<>> =>
              /\ LastCall.fn = "get" =>
                    calc.out = Stored(EarlierCalls, LastCall.key)
              /\ LastCall.fn = "delete" =>
                    /\ calc.out = Stored(EarlierCalls, LastCall.key)
                    /\ get(calc.database, LastCall.key) = <<>>
              /\ \A key \in DbKeys \ {LastCall.key} :
                    Stored(calc.calls, key) = Stored(EarlierCalls, key)

\* a delete has returned the value put under its key, while the key that
\* shares a byte with it still holds its own value
C39_Witness ==
    /\ calc.op = "rusty_level_db"
    /\ Len(calc.calls) >= 3
    /\ LastCall.fn = "delete"
    /\ LastCall.key = 256
    /\ calc.out = <<256>>
    /\ get(calc.database, 256) = <<>>
    /\ get(calc.database, 0) = <<1>>


-----------------------------------------------------------------------------
(* Spending along a chain of validated blocks *)

MaxSpendChain == 4      \* blocks on top of the genesis block

\* the evicted chunks as of the tip
TipChunks == chain.chs[Len(chain.chs)]

TipMsa == ChainTip.kernel.body.mutator_set_accumulator

\* the inputs of an offered block: none, or the removal records of any one
\* or two items of the tip's accumulator, spent before or not, with the
\* chunks of the tip
SpendInputs ==
    LET items == 0..(TipMsa.aocl.leaf_count - 1)
    IN {<<>>} \cup {<<RemovalRecordOf(i, TipChunks)>> : i \in items}
              \cup {<<RemovalRecordOf(p[1], TipChunks), RemovalRecordOf(p[2], TipChunks)>> :
                       p \in {q \in items \X items : q[1] < q[2]}}

\* the blocks offered on the tip: the mock block with the inputs merged in by
\* accumulate_transaction, or with the inputs written into its transaction
OfferedBlocks ==
    LET mock == make_mock_block(ChainTip, <<>>, TipMsa.aocl.leaf_count)
        tx(ins) == MakeTransaction(ins, <<>>, NeptuneCoins(0),
                                   mock.kernel.header.timestamp, TipMsa, TRUE)
    IN {mock}
         \cup {accumulate_transaction(mock, tx(ins), TipMsa) :
                  ins \in {i \in SpendInputs :
                              /\ i # <<>>
                              /\ ~accumulate_transaction_panics(mock, tx(i), TipMsa)}}
         \cup {[mock EXCEPT !.kernel.body.transaction.kernel.inputs = ins] :
                  ins \in SpendInputs \ {<<>>}}

InitSpend ==
    /\ BlockInit
    /\ calc = NoCalc
    /\ mset = NoMs
    /\ conc = NoConc
    /\ chain = [op |-> "spend", blocks |-> <<GenesisBlock>>,
                chs |-> <<GenesisChunks>>, offered |-> GenesisBlock,
                verdict |-> "none"]

\* a block is offered on the tip and judged by is_valid_extended
Offer(block) ==
    LET now_ == block.kernel.header.timestamp
    IN [chain EXCEPT
           !.blocks = [@ EXCEPT ![Len(@)] =
                          previous_block_after_validation(block, ChainTip)],
           !.offered = block,
           !.verdict = validation_outcome(block, ChainTip, now_, <<>>)]

\* the offered block is valid and becomes the tip
SpendAccept ==
    /\ chain.op = "spend"
    /\ Len(chain.blocks) <= MaxSpendChain
    /\ \E block \in OfferedBlocks :
          /\ Offer(block).verdict = "valid"
          /\ chain' = [Offer(block) EXCEPT
                          !.blocks = Append(@, block),
                          !.chs = Append(@, ChunksAfter(TipChunks, TipMsa,
                                     block.kernel.body.transaction.kernel.outputs))]
    /\ UNCHANGED <<blockVars, validVars, calc, mset, conc>>

\* the offered block is not valid and the tip stays
SpendReject ==
    /\ chain.op = "spend"
    /\ \E block \in OfferedBlocks :
          /\ Offer(block).verdict # "valid"
          /\ chain' = Offer(block)
    /\ UNCHANGED <<blockVars, validVars, calc, mset, conc>>

NextSpend ==
    \/ SpendAccept
    \/ SpendReject

SpecSpend == InitSpend /\ [][NextSpend]_vars

\* the removal records of the block at position i of the chain
InputsAt(i) == chain.blocks[i].kernel.body.transaction.kernel.inputs

IndexSets(inputs) == {inputs[n].absolute_indices : n \in 1..Len(inputs)}

\* every index of the record reads 1 in the accumulator of the block at
\* position j, in the active window or in the chunk it was evicted with
AllIndicesSet(rr, j) ==
    LET msa == chain.blocks[j].kernel.body.mutator_set_accumulator
    IN \A n \in 1..Len(rr.absolute_indices) :
          LET index == rr.absolute_indices[n]
          IN IF index >= active_window_start(msa)
             THEN (index - active_window_start(msa)) \in msa.swbf_active
             ELSE (index % CHUNK_SIZE) \in chain.chs[j][index \div CHUNK_SIZE + 1]

\* the removal records with the index set of rr that can be handed to the
\* accumulator of the block at position j: rr as it was, and the record
\* with the chunks of that block
RecordsFor(rr, j) ==
    {rr} \cup {r \in {RemovalRecordOf(k, chain.chs[j]) :
                         k \in 0..(chain.blocks[j].kernel.body
                                      .mutator_set_accumulator.aocl.leaf_count - 1)} :
                  r.absolute_indices = rr.absolute_indices}

\* C40: no double spend along a validated chain: when a removal record r is
\* an input of a block of the chain, no later block of the chain has an
\* input with r's absolute-index set, because from that block on all of r's
\* indices read 1 in every descendant's accumulator and can_remove fails.
C40_NoDoubleSpend ==
    chain.op = "spend" =>
        /\ \A i \in 1..Len(chain.blocks) : \A n \in 1..Len(InputsAt(i)) :
              \A j \in i..Len(chain.blocks) :
                 /\ AllIndicesSet(InputsAt(i)[n], j)
                 /\ \A r \in RecordsFor(InputsAt(i)[n], j) :
                       ~can_remove(chain.blocks[j].kernel.body.mutator_set_accumulator, r)
                 /\ j > i => InputsAt(i)[n].absolute_indices \notin IndexSets(InputsAt(j))
        /\ (\E i \in 1..Len(chain.blocks) :
               IndexSets(InputsAt(i))
                  \cap IndexSets(chain.offered.kernel.body.transaction.kernel.inputs) # {})
               /\ chain.offered # ChainTip
              => chain.verdict # "valid"

\* an item was spent by a block of the chain, the window has slid past its
\* indices since, and the last block offered spent it again and was refused
C40_Witness ==
    /\ chain.op = "spend"
    /\ chain.verdict = "1.b"
    /\ \E i \in 1..(Len(chain.blocks) - 1) :
          /\ InputsAt(i) # <<>>
          /\ IndexSets(InputsAt(i))
                \subseteq IndexSets(chain.offered.kernel.body.transaction.kernel.inputs)
          /\ \A n \in 1..Len(InputsAt(i)[1].absolute_indices) :
                InputsAt(i)[1].absolute_indices[n] < active_window_start(TipMsa)

=============================================================================
